---- MODULE Spec2Model ----
(***************************************************************************)
(* Dashboard critical-alert engine of the HR portal (src/js/dashboard.js). *)
(*                                                                         *)
(* Time is counted in whole hours since 1970-01-01T00:00Z.  A JavaScript   *)
(* number is modelled as <<n>>, NaN as <<>>.  A Date object is its time    *)
(* value; its calendar fields are read in the executing machine's zone,    *)
(* the zone of the variable zone, a fixed UTC offset of tzOffset hours.    *)
(***************************************************************************)
EXTENDS Integers, Sequences, FiniteSets, TLC

VARIABLES
    clock,        \* the real instant (hours since the epoch, UTC)
    zone,         \* time zone of the executing machine
    employees,    \* argument of generateCriticalAlerts
    leaveData,    \* argument of generateCriticalAlerts
    pc,           \* position inside generateCriticalAlerts
    today,        \* const today = new Date(getWIBDate())   (line 478)
    alerts,       \* the alerts array
    emitted,      \* the alerts array as it was just before the sort
    cur,          \* index in employees of the element a forEach is at
    tmp,          \* birthdayThisYear / anniversaryThisYear of that element
    reads,        \* WIB wall-clock values getWIBDate returned in this run
    ticks,        \* clock ticks so far
    rawStatus,    \* argument of normalizeLeaveStatus: <<parts, text>>
    normalized,   \* its result
    recruitmentData, \* argument of calculateRecruitmentStats
    stats,        \* results of the statistics functions called so far
    dashboardData,   \* let dashboardData                        (line 23)
    loads,        \* the calls of loadDashboardData that have not returned
    server,       \* version of the contents of the remote stores
    rendered,     \* what the page shows: the alert buttons, the counters
    location,     \* window.location.href
    charts,       \* the two chart handles and the Chart instances alive
    notificationBadge, \* the badge element: hidden or not
    pressed,      \* the last call of handleAlertAction and what it returned
    taskCalls,    \* the task handlers running, and what they have done
    tables,       \* rows of the backend tables, and the backend calls running
    employeesPage \* state of the employees page

\* state of the statistics functions, state of the page
statVars == <<recruitmentData, stats>>
opVars == <<pressed, taskCalls, tables, employeesPage>>
loadVars == <<dashboardData, loads, server, rendered, location, charts,
              notificationBadge, opVars>>

vars == <<clock, zone, employees, leaveData, pc, today, alerts, emitted,
          cur, tmp, reads, ticks, rawStatus, normalized, statVars, loadVars>>

----------------------------------------------------------------------------
(* JavaScript numbers *)

NaN == <<>>
Num(n) == <<n>>
IsNaN(x) == x = <<>>
Val(x) == x[1]

\* Math.ceil(a / b) for integers a and b > 0 (Math.ceil gives -0 for a in
\* -b+1..-1, and -0 >= 0 holds, so -0 is 0 here).
CeilDiv(a, b) == -((-a) \div b)

----------------------------------------------------------------------------
(* The proleptic Gregorian calendar of Date; months are 1..12 here *)

\* days from 1970-01-01 to the civil date y-m-d, m in 1..12
DaysFromCivilNorm(y, m, d) ==
    LET yy  == IF m <= 2 THEN y - 1 ELSE y
        era == yy \div 400
        yoe == yy - era * 400
        mp  == IF m > 2 THEN m - 3 ELSE m + 9
        doy == (153 * mp + 2) \div 5 + d - 1
        doe == yoe * 365 + yoe \div 4 - yoe \div 100 + doy
    IN  era * 146097 + doe - 719468

\* MakeDay: a month outside 1..12 carries into the year, a day outside the
\* month carries into the following (or preceding) months.
DaysFromCivil(y, m, d) ==
    LET y2 == y + ((m - 1) \div 12)
        m2 == ((m - 1) % 12) + 1
    IN  DaysFromCivilNorm(y2, m2, 1) + d - 1

\* the civil date <<y, m, d>> of day number z
CivilFromDays(z) ==
    LET zz  == z + 719468
        era == zz \div 146097
        doe == zz - era * 146097
        yoe == (doe - doe \div 1460 + doe \div 36524 - doe \div 146096) \div 365
        doy == doe - (365 * yoe + yoe \div 4 - yoe \div 100)
        mp  == (5 * doy + 2) \div 153
        d   == doy - (153 * mp + 2) \div 5 + 1
        m   == IF mp < 10 THEN mp + 3 ELSE mp - 9
        y   == yoe + era * 400 + (IF m <= 2 THEN 1 ELSE 0)
    IN  <<y, m, d>>

----------------------------------------------------------------------------
(* Date: values handed to new Date(...) and the fields read back            *)
(*   <<"date", y, m, d>>  a date-only string "YYYY-MM-DD" (a date column)    *)
(*   <<"iso", t>>         a date-time string with a zone, the instant t      *)
(*   <<"wall", y, m, d, h>> a zone-less locale string "M/D/YYYY, h:00:00"    *)
(*   <<"obj", x>>         a Date object with time value x (a number or NaN)  *)
(*   <<"null">>, <<"undefined">>, <<"empty">> (the string ""),               *)
(*   <<"bad">>            a non-empty string that is no date                 *)

Null == <<"null">>
Undefined == <<"undefined">>
EmptyStr == <<"empty">>
BadStr == <<"bad">>
DateStr(y, m, d) == <<"date", y, m, d>>
IsoStr(t) == <<"iso", t>>
DateObj(x) == <<"obj", x>>

\* !!v of a field value
Truthy(v) == v[1] \in {"date", "iso", "wall", "bad", "obj"}

\* a || b
OrElse(a, b) == IF Truthy(a) THEN a ELSE b

\* the time value of new Date(v) on a machine at UTC offset tz: a date-only
\* string is UTC midnight, a zone-less string is local time, null is the
\* epoch, undefined and anything unparseable are Invalid Date.
NewDate(v, tz) ==
    CASE v[1] = "obj"  -> v[2]
      [] v[1] = "date" -> Num(DaysFromCivil(v[2], v[3], v[4]) * 24)
      [] v[1] = "iso"  -> Num(v[2])
      [] v[1] = "wall" -> Num(DaysFromCivil(v[2], v[3], v[4]) * 24 + v[5] - tz)
      [] v[1] = "null" -> Num(0)
      [] OTHER         -> NaN

\* the local calendar fields <<y, m, d, h>> of time value x, NaN if invalid
LocalFields(x, tz) ==
    IF IsNaN(x) THEN NaN
    ELSE LET l == Val(x) + tz
             c == CivilFromDays(l \div 24)
         IN  <<c[1], c[2], c[3], l % 24>>

getFullYear(x, tz) == IF IsNaN(x) THEN NaN ELSE Num(LocalFields(x, tz)[1])
getMonth(x, tz) == IF IsNaN(x) THEN NaN ELSE Num(LocalFields(x, tz)[2])
getDate(x, tz) == IF IsNaN(x) THEN NaN ELSE Num(LocalFields(x, tz)[3])

\* new Date(year, month, day): local midnight, fields carried over
MakeDate(y, m, d, tz) ==
    IF IsNaN(y) \/ IsNaN(m) \/ IsNaN(d) THEN NaN
    ELSE Num(DaysFromCivil(Val(y), Val(m), Val(d)) * 24 - tz)

\* date.setMonth(date.getMonth() + k): the local fields with the month moved
setMonthPlus(x, k, tz) ==
    IF IsNaN(x) THEN NaN
    ELSE LET f == LocalFields(x, tz)
         IN  Num(DaysFromCivil(f[1], f[2] + k, f[3]) * 24 + f[4] - tz)

\* date.toDateString(): the local calendar date, or "Invalid Date"
toDateString(x, tz) ==
    IF IsNaN(x) THEN <<"Invalid Date">>
    ELSE LET f == LocalFields(x, tz) IN <<f[1], f[2], f[3]>>

----------------------------------------------------------------------------
(* SECTION 1: CONFIGURATION *)

\* TIMEZONE: 'Asia/Jakarta', WIB, UTC+7 all year
WIB_OFFSET == 7
PROBATION_WARNING_DAYS == 7

----------------------------------------------------------------------------
(* SECTION 2: UTILITY FUNCTIONS; c is the clock when the function runs *)

\* the UTC offset, in hours, that Date uses for local time on this machine
tzOffset ==
    CASE zone = "Asia/Jakarta" -> WIB_OFFSET
      [] zone = "UTC" -> 0
      [] zone = "America/Bogota" -> -5

\* new Date().toLocaleString('en-US', {timeZone}): the WIB wall clock
getWIBDate(c) ==
    LET l == c + WIB_OFFSET
        d == CivilFromDays(l \div 24)
    IN  <<"wall", d[1], d[2], d[3], l % 24>>

daysDifference_lax(date1, date2, tz) ==
    LET a == NewDate(date1, tz)
        b == NewDate(date2, tz)
    IN  IF IsNaN(a) \/ IsNaN(b) THEN NaN
        ELSE Num((Val(b) - Val(a)) \div 24)

daysDifference(date1, date2, tz) ==
    LET a == NewDate(date1, tz)
        b == NewDate(date2, tz)
    IN  IF IsNaN(a) \/ IsNaN(b) THEN NaN
        ELSE Num(CeilDiv(Val(b) - Val(a), 24))

isToday(date, c, tz) ==
    LET t == NewDate(getWIBDate(c), tz)
        target == NewDate(date, tz)
    IN  toDateString(t, tz) = toDateString(target, tz)

getBirthdayThisYear(birthDate, c, tz) ==
    LET t == NewDate(getWIBDate(c), tz)
        birth == NewDate(birthDate, tz)
    IN  MakeDate(getFullYear(t, tz), getMonth(birth, tz), getDate(birth, tz), tz)

getAnniversaryThisYear(joinDate, c, tz) ==
    LET t == NewDate(getWIBDate(c), tz)
        join == NewDate(joinDate, tz)
    IN  MakeDate(getFullYear(t, tz), getMonth(join, tz), getDate(join, tz), tz)

calculateYearsOfService(joinDate, c, tz) ==
    LET t == NewDate(getWIBDate(c), tz)
        join == NewDate(joinDate, tz)
    IN  IF IsNaN(join) THEN NaN
        ELSE Num(Val(getFullYear(t, tz)) - Val(getFullYear(join, tz)))

----------------------------------------------------------------------------
(* Strings are sequences of one-character strings *)

LowerOf ==
    ("A" :> "a") @@ ("B" :> "b") @@ ("C" :> "c") @@ ("D" :> "d") @@ ("E" :> "e") @@ ("F" :> "f")
        @@ ("G" :> "g") @@ ("H" :> "h") @@ ("I" :> "i") @@ ("J" :> "j") @@ ("K" :> "k") @@ ("L" :> "l")
        @@ ("M" :> "m") @@ ("N" :> "n") @@ ("O" :> "o") @@ ("P" :> "p") @@ ("Q" :> "q") @@ ("R" :> "r")
        @@ ("S" :> "s") @@ ("T" :> "t") @@ ("U" :> "u") @@ ("V" :> "v") @@ ("W" :> "w") @@ ("X" :> "x")
        @@ ("Y" :> "y") @@ ("Z" :> "z")

UpperOf ==
    ("a" :> "A") @@ ("b" :> "B") @@ ("c" :> "C") @@ ("d" :> "D") @@ ("e" :> "E") @@ ("f" :> "F")
        @@ ("g" :> "G") @@ ("h" :> "H") @@ ("i" :> "I") @@ ("j" :> "J") @@ ("k" :> "K") @@ ("l" :> "L")
        @@ ("m" :> "M") @@ ("n" :> "N") @@ ("o" :> "O") @@ ("p" :> "P") @@ ("q" :> "Q") @@ ("r" :> "R")
        @@ ("s" :> "S") @@ ("t" :> "T") @@ ("u" :> "U") @@ ("v" :> "V") @@ ("w" :> "W") @@ ("x" :> "X")
        @@ ("y" :> "Y") @@ ("z" :> "Z")

toLowerCase(s) == [i \in 1..Len(s) |-> IF s[i] \in DOMAIN LowerOf THEN LowerOf[s[i]] ELSE s[i]]
toUpperCase(s) == [i \in 1..Len(s) |-> IF s[i] \in DOMAIN UpperOf THEN UpperOf[s[i]] ELSE s[i]]

RECURSIVE trimStart(_)
trimStart(s) == IF s # <<>> /\ Head(s) = " " THEN trimStart(Tail(s)) ELSE s

RECURSIVE trimEnd(_)
trimEnd(s) ==
    IF s # <<>> /\ s[Len(s)] = " " THEN trimEnd(SubSeq(s, 1, Len(s) - 1)) ELSE s

trim(s) == trimEnd(trimStart(s))

\* s.includes(sub)
includes(s, sub) ==
    \E i \in 1..(Len(s) - Len(sub) + 1) : SubSeq(s, i, i + Len(sub) - 1) = sub

Str(chars) == <<"str", chars>>

\* String(v) of a truthy status value
StringOf(v) == v[2]

\* !v of a status value: null, undefined and "" are falsy
Falsy(v) == v[1] \in {"null", "undefined"} \/ (v[1] = "str" /\ v[2] = <<>>)

s_approved == <<"a", "p", "p", "r", "o", "v", "e", "d">>
s_disetujui == <<"d", "i", "s", "e", "t", "u", "j", "u", "i">>
s_declined == <<"d", "e", "c", "l", "i", "n", "e", "d">>
s_rejected == <<"r", "e", "j", "e", "c", "t", "e", "d">>
s_ditolak == <<"d", "i", "t", "o", "l", "a", "k">>
s_pending == <<"p", "e", "n", "d", "i", "n", "g">>
s_awaiting == <<"a", "w", "a", "i", "t", "i", "n", "g", " ", "r", "e", "v", "i", "e", "w">>
s_approve == <<"a", "p", "p", "r", "o", "v", "e">>
s_di_tolak == <<"d", "i", " ", "t", "o", "l", "a", "k">>
s_not == <<"n", "o", "t", " ">>
s_by_manager == <<" ", "b", "y", " ", "m", "a", "n", "a", "g", "e", "r">>
s_or_ditolak == <<" ", "/", " ", "d", "i", "t", "o", "l", "a", "k">>
s_or_approved == <<" ", "/", " ", "a", "p", "p", "r", "o", "v", "e", "d">>

----------------------------------------------------------------------------
(* SECTION 4: normalizeLeaveStatus *)

normalizeLeaveStatus_declinedFirst(status) ==
    IF Falsy(status) THEN "Pending"
    ELSE LET s == trim(toLowerCase(StringOf(status)))
         IN  IF includes(s, s_declined) \/ includes(s, s_rejected)
                \/ includes(s, s_ditolak) THEN "Declined"
             ELSE IF includes(s, s_approved) \/ includes(s, s_disetujui)
                  THEN "Approved"
             ELSE "Pending"

normalizeLeaveStatus(status) ==
    IF Falsy(status) THEN "Pending"
    ELSE LET s == trim(toLowerCase(StringOf(status)))
         IN  IF includes(s, s_approved) \/ includes(s, s_disetujui)
             THEN "Approved"
             ELSE IF includes(s, s_declined) \/ includes(s, s_rejected)
                     \/ includes(s, s_ditolak) THEN "Declined"
             ELSE "Pending"

----------------------------------------------------------------------------
(* SECTION 5: CRITICAL ALERTS GENERATION                                    *)
(* An alert is [type, priority, idx, n]: idx is the position in the input   *)
(* array of the employee or leave object the alert refers to, n is          *)
(* daysRemaining, years or daysPending (0 for a birthday alert).            *)

Alert(type, priority, idx, n) ==
    [type |-> type, priority |-> priority, idx |-> idx, n |-> n]

\* 1. Contract Expiring Alerts
contractCandidate_notResigned(e) ==
    e.is_active /\ ~e.is_resigned /\ Truthy(e.current_contract_end)

contractCandidate(e) == e.is_active /\ Truthy(e.current_contract_end)

contractDue_exclusive(d) == ~IsNaN(d) /\ Val(d) > 0 /\ Val(d) <= 30

contractDue(d) == ~IsNaN(d) /\ Val(d) >= 0 /\ Val(d) <= 30

contractPriority_strict(d) ==
    IF Val(d) < 7 THEN "high" ELSE IF Val(d) < 14 THEN "medium" ELSE "low"

contractPriority(d) ==
    IF Val(d) <= 7 THEN "high" ELSE IF Val(d) <= 14 THEN "medium" ELSE "low"

RECURSIVE contractPass(_, _, _, _)
contractPass(emps, k, t, tz) ==
    IF k > Len(emps) THEN <<>>
    ELSE LET emp == emps[k]
             daysUntilExpiry == daysDifference(t, emp.current_contract_end, tz)
         IN  (IF contractCandidate(emp) /\ contractDue(daysUntilExpiry)
              THEN <<Alert("contract", contractPriority(daysUntilExpiry), k,
                           Val(daysUntilExpiry))>>
              ELSE <<>>)
             \o contractPass(emps, k + 1, t, tz)

\* 2. Birthday Today Alerts
birthdayCandidate(e) == e.is_active /\ Truthy(e.birth_date)

\* 3. Work Anniversary Alerts
anniversaryCandidate(e) == e.is_active /\ Truthy(e.join_date)

anniversaryDue(d) == ~IsNaN(d) /\ Val(d) >= 0 /\ Val(d) <= 7

\* 4. Probation Ending Alerts
probationCandidate(e) == e.is_active /\ e.employment_status = "Probation"

probationEnd(e, tz) == setMonthPlus(NewDate(e.join_date, tz), 3, tz)

probationDue(d) ==
    ~IsNaN(d) /\ Val(d) >= 0 /\ Val(d) <= PROBATION_WARNING_DAYS

RECURSIVE probationPass(_, _, _, _)
probationPass(emps, k, t, tz) ==
    IF k > Len(emps) THEN <<>>
    ELSE LET emp == emps[k]
             daysUntilProbationEnd ==
                 daysDifference(t, DateObj(probationEnd(emp, tz)), tz)
         IN  (IF probationCandidate(emp) /\ probationDue(daysUntilProbationEnd)
              THEN <<Alert("probation", "high", k, Val(daysUntilProbationEnd))>>
              ELSE <<>>)
             \o probationPass(emps, k + 1, t, tz)

\* 5. Leave Pending > 2 Days
leaveCandidate(leave) == normalizeLeaveStatus(leave.status) = "Pending"

leaveDue_inclusive(d) == ~IsNaN(d) /\ Val(d) >= 2

leaveDue(d) == ~IsNaN(d) /\ Val(d) > 2

leavePriority(d) == IF Val(d) > 5 THEN "high" ELSE "medium"

RECURSIVE leavePass(_, _, _, _)
leavePass(leaves, k, t, tz) ==
    IF k > Len(leaves) THEN <<>>
    ELSE LET leave == leaves[k]
             requestDate ==
                 DateObj(NewDate(OrElse(leave.timestamp, leave.tanggalPermohonan), tz))
             daysPending == daysDifference(requestDate, t, tz)
         IN  (IF leaveCandidate(leave) /\ leaveDue(daysPending)
              THEN <<Alert("leave_pending", leavePriority(daysPending), k,
                           Val(daysPending))>>
              ELSE <<>>)
             \o leavePass(leaves, k + 1, t, tz)

\* Sort by priority (high > medium > low)
priorityOrder(p) ==
    CASE p = "high" -> 1 [] p = "medium" -> 2 [] p = "low" -> 3

\* a.sort(compare) is a stable sort: an element goes behind every element
\* that does not compare greater
RECURSIVE insertBehind(_, _)
insertBehind(sorted, a) ==
    IF sorted = <<>> THEN <<a>>
    ELSE IF priorityOrder(Head(sorted).priority) - priorityOrder(a.priority) <= 0
         THEN <<Head(sorted)>> \o insertBehind(Tail(sorted), a)
         ELSE <<a>> \o sorted

RECURSIVE insertBefore(_, _)
insertBefore(sorted, a) ==
    IF sorted = <<>> THEN <<a>>
    ELSE IF priorityOrder(Head(sorted).priority) - priorityOrder(a.priority) < 0
         THEN <<Head(sorted)>> \o insertBefore(Tail(sorted), a)
         ELSE <<a>> \o sorted

RECURSIVE sortByPriority_unstable(_)
sortByPriority_unstable(as) ==
    IF as = <<>> THEN <<>>
    ELSE insertBefore(sortByPriority_unstable(SubSeq(as, 1, Len(as) - 1)),
                      as[Len(as)])

RECURSIVE sortByPriority(_)
sortByPriority(as) ==
    IF as = <<>> THEN <<>>
    ELSE insertBehind(sortByPriority(SubSeq(as, 1, Len(as) - 1)), as[Len(as)])

----------------------------------------------------------------------------
(* Inputs *)

MaxEmployees == 2
MaxLeaves == 1
MaxTicks == 1

Employee(active, resigned, status, contractEnd, birth, join) ==
    [is_active |-> active, is_resigned |-> resigned,
     employment_status |-> status, current_contract_end |-> contractEnd,
     birth_date |-> birth, join_date |-> join]

Leave(status, timestamp, tanggalPermohonan) ==
    [status |-> status, timestamp |-> timestamp,
     tanggalPermohonan |-> tanggalPermohonan]

Contractor ==
    Employee(TRUE, FALSE, "Contract", DateStr(2025, 1, 5),
             DateStr(1990, 12, 31), DateStr(2020, 1, 3))
Probationer ==
    Employee(TRUE, FALSE, "Probation", Null,
             DateStr(1992, 2, 29), DateStr(2024, 10, 1))
Inactive ==
    Employee(FALSE, FALSE, "Probation", DateStr(2025, 1, 5),
             DateStr(1990, 12, 31), DateStr(2024, 10, 1))
Unparseable ==
    Employee(TRUE, FALSE, "Probation", BadStr, BadStr, BadStr)
Dateless ==
    Employee(TRUE, FALSE, "Probation", EmptyStr, Null, Null)
ActiveResigned ==
    Employee(TRUE, TRUE, "Permanent", DateStr(2024, 12, 20),
             DateStr(1985, 1, 1), DateStr(2019, 12, 28))

NewYearJoiner ==
    Employee(TRUE, FALSE, "Permanent", Null, Null, DateStr(2021, 1, 1))

EmployeePool ==
    {Contractor, Probationer, Inactive, Unparseable, Dateless, ActiveResigned,
     NewYearJoiner}
BatchEmployees == {Contractor, Probationer, ActiveResigned}

\* hours since the epoch of the WIB wall-clock time y-m-d h:00
WIBClock(y, m, d, h) == DaysFromCivil(y, m, d) * 24 + h - WIB_OFFSET

PendingLeave == Leave(Str(s_pending), IsoStr(WIBClock(2024, 12, 20, 8)), Undefined)
ApprovedLeave == Leave(Str(<<"D">> \o Tail(s_disetujui)), IsoStr(WIBClock(2024, 12, 1, 10)), Undefined)
DeclinedLeave == Leave(Str(s_ditolak), IsoStr(WIBClock(2024, 12, 1, 10)), Undefined)
BlankLeave == Leave(Str(<<>>), EmptyStr, DateStr(2024, 12, 25))
UndatedLeave == Leave(Str(s_pending), Null, Null)
MisdatedLeave == Leave(Str(s_awaiting), BadStr, Undefined)

LeavePool ==
    {PendingLeave, ApprovedLeave, DeclinedLeave, BlankLeave, UndatedLeave,
     MisdatedLeave}
BatchLeaves == {PendingLeave, UndatedLeave}

\* The executing machine's zone; none of the three has daylight saving
MachineZones == {"Asia/Jakarta", "UTC", "America/Bogota"}

SweepDays ==
    (DaysFromCivil(2024, 12, 1) .. DaysFromCivil(2025, 1, 8))
    \cup {DaysFromCivil(2024, 2, 29), DaysFromCivil(2024, 3, 1),
          DaysFromCivil(2025, 2, 28), DaysFromCivil(2025, 3, 1)}
SweepHours == {6, 7, 8, 23}
SweepClocks == {d * 24 + h - WIB_OFFSET : d \in SweepDays, h \in SweepHours}
BatchClocks == {WIBClock(2024, 12, 24, 23), WIBClock(2024, 12, 31, 23)}

SeqsUpTo(S, n) == UNION {[1..k -> S] : k \in 0..n}

----------------------------------------------------------------------------
(* The run of generateCriticalAlerts(employees, leaveData) *)

NoStatus == <<"none">>

\* an object without properties, an array without elements
EmptyObject == <<>>
EmptyList == <<"list", <<>>>>

\* lines 23-30: the snapshot the page starts with
InitialSnapshot ==
    [employees |-> EmptyList, leaveData |-> EmptyList,
     recruitmentData |-> EmptyList, tasks |-> EmptyList,
     stats |-> EmptyObject, alerts |-> <<>>]

\* the remote stores when the page is opened: the task they hold is pending
InitialServer == [task |-> "pending"]

\* nothing is shown yet, no button has been pressed
NothingRendered ==
    [alerts |-> <<>>, stats |-> EmptyObject, departments |-> <<>>,
     tasks |-> <<>>, clicked |-> 0]

\* lines 32-34: no chart yet; live is the set of <<canvas, instance>> of the
\* Chart instances created and not destroyed, made counts the instances
\* created; a handle is the number of its instance, 0 for null
NoCharts ==
    [headcountChartInstance |-> 0, turnoverChartInstance |-> 0,
     live |-> {}, made |-> 0]

\* the badge as the page is delivered: it carries the class hidden
BadgeHidden == [hidden |-> TRUE]

\* window.location.href as <<page, query parameters>>
Href(page, params) == <<page, params>>

\* no statistics function has been called
InitNoStats ==
    /\ recruitmentData = <<>>
    /\ stats = EmptyObject

\* no handler has been called, the tables are empty
NothingPressed == [type |-> "", index |-> 0, to |-> Undefined]
InitOps ==
    /\ pressed = NothingPressed
    /\ taskCalls = <<>>
    /\ tables = <<>>
    /\ employeesPage = <<>>

\* the page as the script finds it: nothing loaded, nothing shown
InitPage ==
    /\ dashboardData = InitialSnapshot
    /\ loads = <<>>
    /\ server = InitialServer
    /\ rendered = NothingRendered
    /\ location = Href("dashboard.html", <<>>)
    /\ charts = NoCharts
    /\ notificationBadge = BadgeHidden
    /\ InitOps

InitRun ==
    /\ pc = "idle"
    /\ today = DateObj(NaN)
    /\ alerts = <<>>
    /\ emitted = <<>>
    /\ cur = 0
    /\ tmp = NaN
    /\ reads = <<>>
    /\ ticks = 0
    /\ rawStatus = NoStatus
    /\ normalized = "none"
    /\ InitNoStats
    /\ InitPage

\* one record, every hour of the sweep
InitSweep ==
    /\ clock \in SweepClocks
    /\ \/ employees \in {<<e>> : e \in EmployeePool} /\ leaveData = <<>>
       \/ employees = <<>> /\ leaveData \in {<<l>> : l \in LeavePool}

\* batches of records
InitBatch ==
    /\ clock \in BatchClocks
    /\ employees \in SeqsUpTo(BatchEmployees, MaxEmployees)
    /\ leaveData \in SeqsUpTo(BatchLeaves, MaxLeaves)

Init ==
    /\ zone \in MachineZones
    /\ InitSweep \/ InitBatch
    /\ InitRun

\* the positions at or after k of the elements a filter lets through
BirthdayFrom(k) == {j \in k..Len(employees) : birthdayCandidate(employees[j])}
AnniversaryFrom(k) == {j \in k..Len(employees) : anniversaryCandidate(employees[j])}

\* the least element of a non-empty set of positions
Least(S) == CHOOSE j \in S : \A i \in S : j <= i

\* <<pc, cur>> when the anniversary forEach is to go on from position k
GotoAnniversary(k) ==
    IF AnniversaryFrom(k) # {}
    THEN <<"anniversary", Least(AnniversaryFrom(k))>>
    ELSE <<"finish", 0>>

\* <<pc, cur>> when the birthday forEach is to go on from position k
GotoBirthday(k) ==
    IF BirthdayFrom(k) # {}
    THEN <<"birthday", Least(BirthdayFrom(k))>>
    ELSE GotoAnniversary(1)

\* lines 477-495: today is captured, the contract rule runs on it
Begin ==
    /\ pc = "idle"
    /\ LET w == getWIBDate(clock)
           t == DateObj(NewDate(w, tzOffset))
       IN  /\ today' = t
           /\ reads' = <<w>>
           /\ alerts' = contractPass(employees, 1, t, tzOffset)
    /\ pc' = GotoBirthday(1)[1]
    /\ cur' = GotoBirthday(1)[2]
    /\ UNCHANGED <<clock, zone, employees, leaveData, emitted, tmp, ticks,
                   rawStatus, normalized,
                   statVars, loadVars>>

\* line 499: getBirthdayThisYear reads the clock
BirthdayThisYear ==
    /\ pc = "birthday"
    /\ tmp' = getBirthdayThisYear(employees[cur].birth_date, clock, tzOffset)
    /\ reads' = Append(reads, getWIBDate(clock))
    /\ pc' = "isToday"
    /\ UNCHANGED <<clock, zone, employees, leaveData, today, alerts, emitted,
                   cur, ticks, rawStatus, normalized,
                   statVars, loadVars>>

\* lines 500-509: isToday reads the clock
BirthdayIsToday ==
    /\ pc = "isToday"
    /\ alerts' = IF isToday(DateObj(tmp), clock, tzOffset)
                 THEN Append(alerts, Alert("birthday", "medium", cur, 0))
                 ELSE alerts
    /\ reads' = Append(reads, getWIBDate(clock))
    /\ pc' = GotoBirthday(cur + 1)[1]
    /\ cur' = GotoBirthday(cur + 1)[2]
    /\ UNCHANGED <<clock, zone, employees, leaveData, today, emitted, tmp,
                   ticks, rawStatus, normalized,
                   statVars, loadVars>>

\* lines 514-517: getAnniversaryThisYear reads the clock
AnniversaryThisYear ==
    /\ pc = "anniversary"
    /\ LET anniversaryThisYear ==
               getAnniversaryThisYear(employees[cur].join_date, clock, tzOffset)
           daysUntilAnniversary ==
               daysDifference(today, DateObj(anniversaryThisYear), tzOffset)
       IN  /\ tmp' = daysUntilAnniversary
           /\ IF anniversaryDue(daysUntilAnniversary)
              THEN pc' = "years" /\ cur' = cur
              ELSE /\ pc' = GotoAnniversary(cur + 1)[1]
                   /\ cur' = GotoAnniversary(cur + 1)[2]
    /\ reads' = Append(reads, getWIBDate(clock))
    /\ UNCHANGED <<clock, zone, employees, leaveData, today, alerts, emitted,
                   ticks, rawStatus, normalized,
                   statVars, loadVars>>

\* lines 518-527: calculateYearsOfService reads the clock
AnniversaryYears ==
    /\ pc = "years"
    /\ LET years ==
               calculateYearsOfService(employees[cur].join_date, clock, tzOffset)
       IN  alerts' = Append(alerts, Alert("anniversary", "low", cur, Val(years)))
    /\ reads' = Append(reads, getWIBDate(clock))
    /\ pc' = GotoAnniversary(cur + 1)[1]
    /\ cur' = GotoAnniversary(cur + 1)[2]
    /\ UNCHANGED <<clock, zone, employees, leaveData, today, emitted, tmp,
                   ticks, rawStatus, normalized,
                   statVars, loadVars>>

\* lines 532-575: the probation and leave rules run on today, then the sort
Finish ==
    /\ pc = "finish"
    /\ LET all == alerts \o probationPass(employees, 1, today, tzOffset)
                         \o leavePass(leaveData, 1, today, tzOffset)
       IN  /\ emitted' = all
           /\ alerts' = sortByPriority(all)
    /\ pc' = "done"
    /\ UNCHANGED <<clock, zone, employees, leaveData, today, cur, tmp,
                   reads, ticks, rawStatus, normalized,
                   statVars, loadVars>>

\* the clock passes the top of an hour while the run is under way, before
\* one of its readings of the clock
Tick ==
    /\ pc \in {"birthday", "isToday", "anniversary", "years"}
    /\ ticks < MaxTicks
    /\ clock' = clock + 1
    /\ ticks' = ticks + 1
    /\ UNCHANGED <<zone, employees, leaveData, pc, today, alerts, emitted,
                   cur, tmp, reads, rawStatus, normalized,
                   statVars, loadVars>>

Next ==
    \/ Begin
    \/ BirthdayThisYear
    \/ BirthdayIsToday
    \/ AnniversaryThisYear
    \/ AnniversaryYears
    \/ Finish
    \/ Tick

Spec == Init /\ [][Next]_vars

----------------------------------------------------------------------------
(* Properties of a finished run.  "now" is the instant the run captured in  *)
(* today; stored dates are read as the data layer writes them: a date       *)
(* column is the UTC midnight of its calendar date, a time stamp is its     *)
(* instant.                                                                 *)

Done == pc = "done"

\* now, in hours since the epoch
Now == Val(today[2])

\* the WIB wall clock <<"wall", y, m, d, h>> the run started at
NowWall == reads[1]

IsDate(v) == v[1] = "date"
IsInstant(v) == v[1] \in {"date", "iso"}
InstantOf(v) == IF v[1] = "date" THEN DaysFromCivil(v[2], v[3], v[4]) * 24 ELSE v[2]

\* the alerts of one type that refer to input position k
AlertsFor(type, k) ==
    {i \in DOMAIN alerts : alerts[i].type = type /\ alerts[i].idx = k}

\* n = ceil(h / 24), said without a division: n is the least whole number
\* of days that covers h hours
IsCeilDays(n, h) == (n - 1) * 24 < h /\ h <= n * 24

\* C1: a contract alert exists for an employee, and then exactly one, if and
\* only if the employee is active, has a contract-end date and
\* ceil((contractEnd - now) / 1 day) is in 0..30; the alert carries that
\* number of days.
C1_ContractAlertIff ==
    Done =>
        \A k \in DOMAIN employees :
            LET e == employees[k]
                end == e.current_contract_end
                due == /\ e.is_active
                       /\ end # Null
                       /\ IsDate(end)
                       /\ \E n \in 0..30 : IsCeilDays(n, InstantOf(end) - Now)
            IN  /\ Cardinality(AlertsFor("contract", k)) = IF due THEN 1 ELSE 0
                /\ \A i \in AlertsFor("contract", k) :
                       IsCeilDays(alerts[i].n, InstantOf(end) - Now)

\* a contract that ended earlier on the day of the run still gives an alert
\* (0 days), one that ends in 30 days and a fraction gives none
C1_Witness ==
    /\ Done
    /\ \E k \in DOMAIN employees :
           /\ AlertsFor("contract", k) # {}
           /\ InstantOf(employees[k].current_contract_end) < Now
    /\ tzOffset = WIB_OFFSET

\* C2: a contract alert is high for 0..7 days remaining, medium for 8..14,
\* low for 15..30; a contract end exactly 30 days (7 days) from now gives
\* exactly one alert, and it is low (high).
C2_ContractPriority ==
    Done =>
        /\ \A i \in DOMAIN alerts :
               alerts[i].type = "contract" =>
                   /\ alerts[i].n \in 0..7 => alerts[i].priority = "high"
                   /\ alerts[i].n \in 8..14 => alerts[i].priority = "medium"
                   /\ alerts[i].n \in 15..30 => alerts[i].priority = "low"
                   /\ alerts[i].n \in 0..30
        /\ \A k \in DOMAIN employees :
               LET e == employees[k]
                   end == e.current_contract_end
                   exactly(n) == e.is_active /\ IsDate(end)
                                 /\ InstantOf(end) - Now = n * 24
               IN  /\ exactly(30) =>
                          \E i \in DOMAIN alerts :
                              /\ AlertsFor("contract", k) = {i}
                              /\ alerts[i].priority = "low"
                   /\ exactly(7) =>
                          \E i \in DOMAIN alerts :
                              /\ AlertsFor("contract", k) = {i}
                              /\ alerts[i].priority = "high"

\* a contract end exactly 7 days from now
C2_Witness ==
    /\ Done
    /\ \E k \in DOMAIN employees :
           /\ employees[k].is_active
           /\ IsDate(employees[k].current_contract_end)
           /\ InstantOf(employees[k].current_contract_end) - Now = 7 * 24
           /\ AlertsFor("contract", k) # {}

\* the request date of a leave record: leave.timestamp || leave.tanggalPermohonan
RequestDate(l) == OrElse(l.timestamp, l.tanggalPermohonan)

\* status texts by what they are meant to say
PendingTexts == {Str(s_pending), Str(s_awaiting), Str(<<>>)}
SettledTexts == {Str(<<"D">> \o Tail(s_disetujui)), Str(s_ditolak)}

\* C3: for a leave request whose status normalizes to Pending, a
\* leave_pending alert exists (and then exactly one) if and only if
\* ceil((now - requestTimestamp) / 1 day) > 2, i.e. more than 48 hours have
\* passed; it is high if that number is > 5 and medium otherwise; approved
\* and declined requests give no alert.
C3_LeavePendingIff ==
    Done =>
        \A k \in DOMAIN leaveData :
            LET l == leaveData[k]
                waited == Now - InstantOf(RequestDate(l))
            IN  /\ l.status \in SettledTexts => AlertsFor("leave_pending", k) = {}
                /\ (l.status \in PendingTexts /\ IsInstant(RequestDate(l))) =>
                       /\ Cardinality(AlertsFor("leave_pending", k))
                              = IF waited > 2 * 24 THEN 1 ELSE 0
                       /\ \A i \in AlertsFor("leave_pending", k) :
                              /\ IsCeilDays(alerts[i].n, waited)
                              /\ alerts[i].priority
                                     = IF alerts[i].n > 5 THEN "high" ELSE "medium"

\* a request pending for 3 days exactly: one alert, medium
C3_Witness ==
    /\ Done
    /\ \E k \in DOMAIN leaveData :
           /\ leaveData[k].status = Str(s_pending)
           /\ IsInstant(RequestDate(leaveData[k]))
           /\ Now - InstantOf(RequestDate(leaveData[k])) = 3 * 24
           /\ \E i \in AlertsFor("leave_pending", k) : alerts[i].priority = "medium"

\* the calendar date k months after the date string v, as an instant
MonthsAfter(v, k) == DaysFromCivil(v[2], v[3] + k, v[4]) * 24

\* C4: an active employee on Probation gets a probation alert, of priority
\* high, if and only if the days from now to the join date plus 3 calendar
\* months are in 0..7; nobody else gets one.
C4_ProbationAlertIff ==
    Done =>
        \A k \in DOMAIN employees :
            LET e == employees[k]
                due == /\ e.is_active
                       /\ e.employment_status = "Probation"
                       /\ IsDate(e.join_date)
                       /\ \E n \in 0..7 :
                              IsCeilDays(n, MonthsAfter(e.join_date, 3) - Now)
            IN  /\ Cardinality(AlertsFor("probation", k)) = IF due THEN 1 ELSE 0
                /\ \A i \in AlertsFor("probation", k) : alerts[i].priority = "high"

\* C5: an active employee with a birth date gets exactly one birthday alert,
\* of priority medium, if and only if the month and day of the birth date
\* are the month and day of now's calendar date in WIB.
C5_BirthdayAlertIff ==
    Done =>
        \A k \in DOMAIN employees :
            LET e == employees[k]
                b == e.birth_date
            IN  (e.is_active /\ IsDate(b)) =>
                    /\ Cardinality(AlertsFor("birthday", k))
                           = IF b[3] = NowWall[3] /\ b[4] = NowWall[4] THEN 1 ELSE 0
                    /\ \A i \in AlertsFor("birthday", k) :
                           alerts[i].priority = "medium"

\* C6: an active employee with a join date gets an anniversary alert, of
\* priority low, if and only if the days from now's date to the join month
\* and day in now's calendar year are in 0..7, and its years are now's year
\* minus the join year.
C6_AnniversaryAlertIff ==
    Done =>
        \A k \in DOMAIN employees :
            LET e == employees[k]
                j == e.join_date
                days == DaysFromCivil(NowWall[2], j[3], j[4])
                        - DaysFromCivil(NowWall[2], NowWall[3], NowWall[4])
            IN  (e.is_active /\ IsDate(j)) =>
                    /\ Cardinality(AlertsFor("anniversary", k))
                           = IF days \in 0..7 THEN 1 ELSE 0
                    /\ \A i \in AlertsFor("anniversary", k) :
                           /\ alerts[i].priority = "low"
                           /\ alerts[i].n = NowWall[2] - j[2]

\* the rank the sort is to order by, and the place of each rule in the run
RankOf(a) == IF a.priority = "high" THEN 1 ELSE IF a.priority = "medium" THEN 2 ELSE 3
RuleOf(a) ==
    CASE a.type = "contract" -> 1
      [] a.type = "birthday" -> 2
      [] a.type = "anniversary" -> 3
      [] a.type = "probation" -> 4
      [] a.type = "leave_pending" -> 5

\* the position of alert a in the array as it was before the sort
EmittedAt(a) == CHOOSE i \in DOMAIN emitted : emitted[i] = a

\* C7: the returned list holds the emitted alerts, each once, all high
\* before all medium before all low; alerts of equal priority are in the
\* order they were emitted, which is by rule (contract, birthday,
\* anniversary, probation, leave_pending) and within a rule by position in
\* the input array.
C7_SortedStable ==
    Done =>
        /\ Len(alerts) = Len(emitted)
        /\ \A i \in DOMAIN emitted : \E j \in DOMAIN alerts : alerts[j] = emitted[i]
        /\ \A i, j \in DOMAIN alerts : i < j => alerts[i] # alerts[j]
        /\ \A i, j \in DOMAIN emitted :
               i < j => \/ RuleOf(emitted[i]) < RuleOf(emitted[j])
                        \/ /\ RuleOf(emitted[i]) = RuleOf(emitted[j])
                           /\ emitted[i].idx < emitted[j].idx
        /\ \A i, j \in DOMAIN alerts :
               i < j => \/ RankOf(alerts[i]) < RankOf(alerts[j])
                        \/ /\ RankOf(alerts[i]) = RankOf(alerts[j])
                           /\ EmittedAt(alerts[i]) < EmittedAt(alerts[j])

\* the sort had to move an alert forward, past alerts that tie with each
\* other and come from different rules
C7_Witness ==
    /\ Done
    /\ \E i, j \in DOMAIN emitted : i < j /\ RankOf(emitted[i]) > RankOf(emitted[j])
    /\ \E i, j \in DOMAIN alerts :
           /\ i < j
           /\ RankOf(alerts[i]) = RankOf(alerts[j])
           /\ RuleOf(alerts[i]) # RuleOf(alerts[j])
    /\ \E i, j \in DOMAIN alerts :
           i < j /\ alerts[i].type = alerts[j].type /\ alerts[i].priority = alerts[j].priority

\* the date a rule read to raise alert a
DateUsed(a) ==
    CASE a.type = "contract" -> employees[a.idx].current_contract_end
      [] a.type = "birthday" -> employees[a.idx].birth_date
      [] a.type \in {"anniversary", "probation"} -> employees[a.idx].join_date
      [] a.type = "leave_pending" -> RequestDate(leaveData[a.idx])

\* C9: a record whose birth, join, contract-end or request date is missing
\* or unparseable gives no alert of the rule that uses that date.
C9_MalformedDateNoAlert ==
    Done => \A i \in DOMAIN alerts : IsInstant(DateUsed(alerts[i]))

\* C10: every rule of one run sees the date captured at its start: each
\* reading of the clock in the run gives the calendar date of the first.
C10_OneNowPerRun ==
    Done => \A i \in DOMAIN reads : SubSeq(reads[i], 2, 4) = SubSeq(reads[1], 2, 4)

----------------------------------------------------------------------------
(* normalizeLeaveStatus on its own: status texts put together from a       *)
(* prefix, a word, a suffix and a casing                                    *)

Prefixes == {"", " ", "not "}
Words == {"approved", "disetujui", "declined", "rejected", "ditolak",
          "pending", "awaiting review", "approve", "di tolak", ""}
Suffixes == {"", " ", " by manager", " / ditolak", " / approved"}
Casings == {"lower", "UPPER", "MiXeD"}

TextOf(part) ==
    CASE part = "" -> <<>>
      [] part = " " -> <<" ">>
      [] part = "not " -> s_not
      [] part = "approved" -> s_approved
      [] part = "disetujui" -> s_disetujui
      [] part = "declined" -> s_declined
      [] part = "rejected" -> s_rejected
      [] part = "ditolak" -> s_ditolak
      [] part = "pending" -> s_pending
      [] part = "awaiting review" -> s_awaiting
      [] part = "approve" -> s_approve
      [] part = "di tolak" -> s_di_tolak
      [] part = " by manager" -> s_by_manager
      [] part = " / ditolak" -> s_or_ditolak
      [] part = " / approved" -> s_or_approved

Cased(casing, text) ==
    CASE casing = "lower" -> text
      [] casing = "UPPER" -> toUpperCase(text)
      [] casing = "MiXeD" ->
             [i \in 1..Len(text) |-> IF i % 2 = 1 THEN toUpperCase(text)[i] ELSE text[i]]

\* a status input: how it was put together, and the value itself
StatusInputs ==
    {<<<<"null">>, Null>>, <<<<"undefined">>, Undefined>>}
    \cup {<<<<p, w, x, c>>, Str(Cased(c, TextOf(p) \o TextOf(w) \o TextOf(x)))>> :
              p \in Prefixes, w \in Words, x \in Suffixes, c \in Casings}

InitNormalize ==
    /\ rawStatus \in StatusInputs
    /\ normalized = "none"
    /\ clock = 0
    /\ zone = "Asia/Jakarta"
    /\ employees = <<>>
    /\ leaveData = <<>>
    /\ pc = "idle"
    /\ today = DateObj(NaN)
    /\ alerts = <<>>
    /\ emitted = <<>>
    /\ cur = 0
    /\ tmp = NaN
    /\ reads = <<>>
    /\ ticks = 0
    /\ InitNoStats
    /\ InitPage

Normalize ==
    /\ normalized = "none"
    /\ normalized' = normalizeLeaveStatus(rawStatus[2])
    /\ UNCHANGED <<clock, zone, employees, leaveData, pc, today, alerts,
                   emitted, cur, tmp, reads, ticks, rawStatus,
                   statVars, loadVars>>

SpecNormalize == InitNormalize /\ [][Normalize]_vars

\* what the parts of a status text say
SaysApproved(parts) ==
    Len(parts) = 4 /\ (parts[2] \in {"approved", "disetujui"} \/ parts[3] = " / approved")
SaysDeclined(parts) ==
    Len(parts) = 4 /\ (parts[2] \in {"declined", "rejected", "ditolak"} \/ parts[3] = " / ditolak")

\* C8: normalizeLeaveStatus gives one of Pending, Approved, Declined for
\* every input: Approved when the text holds "approved" or "disetujui" in
\* any casing (also when it holds a declined word as well), else Declined
\* when it holds "declined", "rejected" or "ditolak", else Pending (the
\* empty text, null, undefined, any other text).
C8_NormalizeStatus ==
    normalized # "none" =>
        /\ normalized \in {"Pending", "Approved", "Declined"}
        /\ normalized = IF SaysApproved(rawStatus[1]) THEN "Approved"
                        ELSE IF SaysDeclined(rawStatus[1]) THEN "Declined"
                        ELSE "Pending"

\* " DITOLAK / APPROVED": a declined word and an approved word
C8_Witness ==
    /\ normalized = "Approved"
    /\ rawStatus[1] = <<" ", "ditolak", " / approved", "UPPER">>

----------------------------------------------------------------------------
(* Values of the other fields of a row                                      *)
(*   <<"bool", b>>   true or false                                          *)
(*   <<"text", s>>   the string s                                           *)
(*   <<"row", r>>    a joined row, an object with the fields of r           *)
(*   <<"list", a>>   an array                                               *)

Bool(b) == <<"bool", b>>
Text(s) == <<"text", s>>
Row(r) == <<"row", r>>
List(a) == <<"list", a>>

\* !!v
ToBoolean(v) ==
    CASE v[1] = "bool" -> v[2]
      [] v[1] = "text" -> v[2] # ""
      [] v[1] = "str"  -> v[2] # <<>>
      [] v[1] \in {"null", "undefined", "empty"} -> FALSE
      [] OTHER -> TRUE

\* v === 'literal'
Is(v, literal) == v[1] = "text" /\ v[2] = literal

\* the rows of the employees table, with the department joined in
\* (getAllEmployees: departments:department_id (id, name))
Person(id, active, resigned, gender, departments, join, resign) ==
    [id |-> id, is_active |-> active, is_resigned |-> resigned,
     gender |-> gender, departments |-> departments,
     join_date |-> join, resign_date |-> resign,
     employment_status |-> Text("Permanent"),
     current_contract_end |-> Null, birth_date |-> Null]

Department(name) == Row([name |-> name])

\* a row of recruitment_tracker
Candidate(stage) == [current_stage |-> stage]

\* a row of tasks
Task(id, status) == [id |-> id, status |-> status]

\* the row as the rules of generateCriticalAlerts read it: is_active and
\* is_resigned are read for their truth value, employment_status is compared
\* with 'Probation'
AsEmployee(p) ==
    Employee(ToBoolean(p.is_active), ToBoolean(p.is_resigned),
             IF Is(p.employment_status, "Probation") THEN "Probation" ELSE "Other",
             p.current_contract_end, p.birth_date, p.join_date)

AsEmployees(emps) == [i \in DOMAIN emps |-> AsEmployee(emps[i])]

----------------------------------------------------------------------------
(* SECTION 4: STATISTICS CALCULATION *)

\* how many elements of array a have their index in the set S
CountOf(S) == Cardinality(S)

calculateEmployeeStats_resignedInactive(emps) ==
    LET all      == DOMAIN emps
        male     == {i \in all : Is(emps[i].gender, "Male")}
        female   == {i \in all : Is(emps[i].gender, "Female")}
        active   == {i \in all : ToBoolean(emps[i].is_active)
                                   /\ ~ToBoolean(emps[i].is_resigned)}
        inactive == all \ active
    IN  [totalEmployees    |-> CountOf(all),
         totalMale         |-> CountOf(male),
         totalFemale       |-> CountOf(female),
         activeEmployees   |-> CountOf(active),
         activeMale        |-> CountOf(active \cap male),
         activeFemale      |-> CountOf(active \cap female),
         inactiveEmployees |-> CountOf(inactive),
         inactiveMale      |-> CountOf(inactive \cap male),
         inactiveFemale    |-> CountOf(inactive \cap female)]

calculateEmployeeStats(emps) ==
    LET all      == DOMAIN emps
        male     == {i \in all : Is(emps[i].gender, "Male")}
        female   == {i \in all : Is(emps[i].gender, "Female")}
        active   == {i \in all : ToBoolean(emps[i].is_active)
                                   /\ ~ToBoolean(emps[i].is_resigned)}
        inactive == {i \in all : ~ToBoolean(emps[i].is_active)}
    IN  [totalEmployees    |-> CountOf(all),
         totalMale         |-> CountOf(male),
         totalFemale       |-> CountOf(female),
         activeEmployees   |-> CountOf(active),
         activeMale        |-> CountOf(active \cap male),
         activeFemale      |-> CountOf(active \cap female),
         inactiveEmployees |-> CountOf(inactive),
         inactiveMale      |-> CountOf(inactive \cap male),
         inactiveFemale    |-> CountOf(inactive \cap female)]

calculateLeaveStats_rawStatus(leaves) ==
    LET said(i, word) == leaves[i].status = Str(word)
    IN  [pendingLeaves  |-> CountOf({i \in DOMAIN leaves : said(i, s_pending)}),
         approvedLeaves |-> CountOf({i \in DOMAIN leaves : said(i, s_approved)}),
         rejectedLeaves |-> CountOf({i \in DOMAIN leaves : said(i, s_rejected)})]

calculateLeaveStats(leaves) ==
    LET status(i) == normalizeLeaveStatus(leaves[i].status)
    IN  [pendingLeaves  |-> CountOf({i \in DOMAIN leaves : status(i) = "Pending"}),
         approvedLeaves |-> CountOf({i \in DOMAIN leaves : status(i) = "Approved"}),
         rejectedLeaves |-> CountOf({i \in DOMAIN leaves : status(i) = "Declined"})]

calculateRecruitmentStats(cands) ==
    LET stage(i) == cands[i].current_stage
    IN  [screening |-> CountOf({i \in DOMAIN cands : Is(stage(i), "Screening")}),
         interview |-> CountOf({i \in DOMAIN cands :
                                  Is(stage(i), "HR Interview")
                                  \/ Is(stage(i), "User Interview")}),
         offering  |-> CountOf({i \in DOMAIN cands : Is(stage(i), "Offering")})]

\* calculateTurnoverData ----------------------------------------------------

\* the decimal digits of a natural number
DigitChars == <<"0", "1", "2", "3", "4", "5", "6", "7", "8", "9">>

RECURSIVE Digits(_)
Digits(n) ==
    IF n < 10 THEN <<DigitChars[n + 1]>>
    ELSE Digits(n \div 10) \o <<DigitChars[(n % 10) + 1]>>

\* ((num / den) * 100).toFixed(1) for 0 <= num <= den, den > 0: the tenths
\* nearest to the value, the larger of two equally near (the value lies
\* half-way between two tenths only when den is a multiple of 16)
toFixed1(num, den) ==
    LET tenths == (2000 * num + den) \div (2 * den)
    IN  Digits(tenths \div 10) \o <<".">> \o Digits(tenths % 10)

calculateTurnoverData_activeFirst(emps) ==
    LET all      == DOMAIN emps
        active   == {i \in all : ToBoolean(emps[i].is_active)}
        resigned == {i \in all \ active : ToBoolean(emps[i].is_resigned)}
    IN  [active |-> CountOf(active), resigned |-> CountOf(resigned),
         inactive |-> CountOf((all \ resigned) \ active),
         total |-> Len(emps),
         turnoverRate |-> IF Len(emps) > 0
                          THEN Str(toFixed1(CountOf(resigned), Len(emps)))
                          ELSE Num(0)]

calculateTurnoverData(emps) ==
    LET all      == DOMAIN emps
        resigned == {i \in all : ToBoolean(emps[i].is_resigned)}
        active   == {i \in all \ resigned : ToBoolean(emps[i].is_active)}
    IN  [active |-> CountOf(active), resigned |-> CountOf(resigned),
         inactive |-> CountOf((all \ resigned) \ active),
         total |-> Len(emps),
         turnoverRate |-> IF Len(emps) > 0
                          THEN Str(toFixed1(CountOf(resigned), Len(emps)))
                          ELSE Num(0)]

\* calculateDepartmentBreakdown ---------------------------------------------

\* property names every object inherits from Object.prototype: breakdown is
\* created as {}, so breakdown[name] is truthy for them before any assignment
ObjectPrototypeKeys ==
    {"constructor", "toString", "toLocaleString", "valueOf", "hasOwnProperty",
     "isPrototypeOf", "propertyIsEnumerable", "__proto__"}

departmentName_unguarded(emp) ==
    IF emp.departments[1] = "row" THEN emp.departments[2].name
    ELSE <<"throw", "TypeError">>

\* emp.departments?.name
departmentName(emp) ==
    IF emp.departments[1] \in {"null", "undefined"} THEN Undefined
    ELSE IF emp.departments[1] = "row" THEN emp.departments[2].name
    ELSE Undefined

\* an exception thrown by the function
Thrown(what) == <<"throw", what>>
IsThrown(v) == v[1] = "throw"

\* emp.departments?.name || 'Unknown', as a property key
deptKey(emp) ==
    LET name == departmentName(emp)
    IN  IF ToBoolean(name) THEN name[2] ELSE "Unknown"

\* the position of the own property key in the entries, 0 if there is none
EntryOf(entries, key) ==
    IF \E i \in DOMAIN entries : entries[i][1] = key
    THEN CHOOSE i \in DOMAIN entries : entries[i][1] = key
    ELSE 0

\* lines 371-377 for one employee; the object is its own properties in the
\* order they were created, <<key, [count, male, female]>>
deptStep(entries, emp) ==
    LET key   == deptKey(emp)
        at    == EntryOf(entries, key)
        plus(d) == [count  |-> d.count + 1,
                    male   |-> d.male + (IF Is(emp.gender, "Male") THEN 1 ELSE 0),
                    female |-> d.female + (IF Is(emp.gender, "Female") THEN 1 ELSE 0)]
    IN  IF at # 0 THEN [entries EXCEPT ![at] = <<key, plus(entries[at][2])>>]
        ELSE IF key \in ObjectPrototypeKeys THEN entries
        ELSE Append(entries, <<key, plus([count |-> 0, male |-> 0, female |-> 0])>>)

RECURSIVE deptFold(_, _, _)
deptFold(emps, k, entries) ==
    IF k > Len(emps) THEN entries
    ELSE IF ToBoolean(emps[k].is_active) /\ ~ToBoolean(emps[k].is_resigned)
         THEN IF departmentName(emps[k])[1] = "throw"
              THEN departmentName(emps[k])
              ELSE deptFold(emps, k + 1, deptStep(entries, emps[k]))
         ELSE deptFold(emps, k + 1, entries)

calculateDepartmentBreakdown(emps) == deptFold(emps, 1, <<>>)

\* Object.entries(breakdown).sort((a, b) => b[1].count - a[1].count)
RECURSIVE insertByCount(_, _)
insertByCount(sorted, a) ==
    IF sorted = <<>> THEN <<a>>
    ELSE IF a[2].count - Head(sorted)[2].count <= 0
         THEN <<Head(sorted)>> \o insertByCount(Tail(sorted), a)
         ELSE <<a>> \o sorted

RECURSIVE sortByCount(_)
sortByCount(entries) ==
    IF entries = <<>> THEN <<>>
    ELSE insertByCount(sortByCount(SubSeq(entries, 1, Len(entries) - 1)),
                       entries[Len(entries)])

\* calculateMonthlyHeadcount ------------------------------------------------

\* emp.join_date ? new Date(emp.join_date) : null
DateOrNull(v, tz) == IF ToBoolean(v) THEN DateObj(NewDate(v, tz)) ELSE Null

\* a <= b and a > b of two Date objects (both false when either is invalid)
DateLeq(a, b) == ~IsNaN(a[2]) /\ ~IsNaN(b[2]) /\ Val(a[2]) <= Val(b[2])
DateGt(a, b) == ~IsNaN(a[2]) /\ ~IsNaN(b[2]) /\ Val(a[2]) > Val(b[2])

\* lines 396-400: the first days of the last 6 months, oldest first
headcountMonths(c, tz) ==
    LET t == NewDate(getWIBDate(c), tz)
    IN  [k \in 1..6 |->
            DateObj(MakeDate(getFullYear(t, tz),
                             Num(Val(getMonth(t, tz)) - (6 - k)), Num(1), tz))]

\* line 404: new Date(month.getFullYear(), month.getMonth() + 1, 0)
monthEndOf(month, tz) ==
    DateObj(MakeDate(getFullYear(month[2], tz),
                     Num(Val(getMonth(month[2], tz)) + 1), Num(0), tz))

\* line 414
joinedBy(emp, monthEnd, tz) ==
    LET joinDate == DateOrNull(emp.join_date, tz)
    IN  ToBoolean(joinDate) /\ DateLeq(joinDate, monthEnd)

\* line 418
stillActive(emp, monthEnd, tz) ==
    LET resignDate == DateOrNull(emp.resign_date, tz)
    IN  ~ToBoolean(resignDate) \/ DateGt(resignDate, monthEnd)

\* date.toLocaleDateString('id-ID', {month: 'short', year: 'numeric'}): the
\* local year and month <<y, m>>
monthLabel(month, tz) ==
    <<Val(getFullYear(month[2], tz)), Val(getMonth(month[2], tz))>>

calculateMonthlyHeadcount(emps, c, tz) ==
    LET months == headcountMonths(c, tz)
        monthEnd(k) == monthEndOf(months[k], tz)
        total(k) == {i \in DOMAIN emps : joinedBy(emps[i], monthEnd(k), tz)}
        active(k) == {i \in total(k) : stillActive(emps[i], monthEnd(k), tz)}
    IN  [labels |-> [k \in 1..6 |-> monthLabel(months[k], tz)],
         active |-> [k \in 1..6 |-> CountOf(active(k))],
         total  |-> [k \in 1..6 |-> CountOf(total(k))]]

----------------------------------------------------------------------------
(* SECTION 5 as one step: generateCriticalAlerts(employees, leaveData) when  *)
(* every reading of the clock in the run gives the same hour c              *)

RECURSIVE birthdayPass(_, _, _, _)
birthdayPass(emps, k, c, tz) ==
    IF k > Len(emps) THEN <<>>
    ELSE LET emp == emps[k]
             birthdayThisYear == getBirthdayThisYear(emp.birth_date, c, tz)
         IN  (IF birthdayCandidate(emp) /\ isToday(DateObj(birthdayThisYear), c, tz)
              THEN <<Alert("birthday", "medium", k, 0)>>
              ELSE <<>>)
             \o birthdayPass(emps, k + 1, c, tz)

RECURSIVE anniversaryPass(_, _, _, _, _)
anniversaryPass(emps, k, t, c, tz) ==
    IF k > Len(emps) THEN <<>>
    ELSE LET emp == emps[k]
             anniversaryThisYear == getAnniversaryThisYear(emp.join_date, c, tz)
             daysUntilAnniversary ==
                 daysDifference(t, DateObj(anniversaryThisYear), tz)
             years == calculateYearsOfService(emp.join_date, c, tz)
         IN  (IF anniversaryCandidate(emp) /\ anniversaryDue(daysUntilAnniversary)
              THEN <<Alert("anniversary", "low", k, Val(years))>>
              ELSE <<>>)
             \o anniversaryPass(emps, k + 1, t, c, tz)

generateCriticalAlerts(emps, leaves, c, tz) ==
    LET t == DateObj(NewDate(getWIBDate(c), tz))
    IN  sortByPriority(contractPass(emps, 1, t, tz)
                       \o birthdayPass(emps, 1, c, tz)
                       \o anniversaryPass(emps, 1, t, c, tz)
                       \o probationPass(emps, 1, t, tz)
                       \o leavePass(leaves, 1, t, tz))

\* the alert with the row it was pushed with: employee: emp or leave: leave
withSubject(a, emps, leaves) ==
    [type |-> a.type, priority |-> a.priority, n |-> a.n,
     employee |-> IF a.type = "leave_pending" THEN Undefined ELSE Row(emps[a.idx]),
     leave    |-> IF a.type = "leave_pending" THEN Row(leaves[a.idx]) ELSE Undefined]

withSubjects(as, emps, leaves) ==
    [i \in DOMAIN as |-> withSubject(as[i], emps, leaves)]

\* generateCriticalAlerts on the rows as fetched
criticalAlerts(emps, leaves, c, tz) ==
    CHOOSE alerted \in
        {withSubjects(as, emps, leaves) :
            as \in {generateCriticalAlerts(AsEmployees(emps), leaves, c, tz)}} : TRUE

----------------------------------------------------------------------------
(* SECTION 3 and SECTION 12: the page, its loads and the remote stores      *)

MaxLoads == 2

Sources == {"employees", "leaveData", "recruitmentData", "tasks"}

\* the instant of the loads, and the zone of the machine they run on
LoadClock == WIBClock(2024, 12, 24, 23)

\* the employees table: a contract that ends in 12 days, a birthday today,
\* a work anniversary in 4 days; a probation that ends in 4 days
Veteran ==
    [Person(Text("e-1"), Bool(TRUE), Bool(FALSE), Text("Female"),
            Department(Text("Finance")), DateStr(2020, 12, 28), Null)
        EXCEPT !.employment_status = Text("Contract"),
               !.current_contract_end = DateStr(2025, 1, 5),
               !.birth_date = DateStr(1990, 12, 24)]
Newcomer ==
    [Person(Text("e-2"), Bool(TRUE), Bool(FALSE), Text("Male"),
            Department(Text("Finance")), DateStr(2024, 9, 28), Null)
        EXCEPT !.employment_status = Text("Probation")]

RemoteEmployees == <<Veteran, Newcomer>>

\* the leave sheet: one request of 20 December, still pending
RemoteLeaves ==
    <<Leave(Str(s_pending), IsoStr(WIBClock(2024, 12, 20, 8)), Undefined)>>

RemoteRecruitment ==
    <<Candidate(Text("Screening")), Candidate(Text("User Interview"))>>

\* the tasks table: one task, pending or completed
RemoteTasks(sv) == <<Task(Text("t-1"), Text(sv.task))>>

\* the body the leave API answers with: an array, an object that holds the
\* array as records or as data, or an object whose data is a message
LeaveShapes == {"array", "records", "data", "message"}

LeavePayload(shape) ==
    CASE shape = "array"   -> List(RemoteLeaves)
      [] shape = "records" -> Row([records |-> List(RemoteLeaves)])
      [] shape = "data"    -> Row([data |-> List(RemoteLeaves)])
      [] shape = "message" -> Row([data |-> Text("No data found")])

\* how a request ends: answered, answered with an error, or rejected
Outcomes == {"ok", "error", "reject"}

\* lines 152-172
fetchEmployees(outcome) ==
    IF outcome = "ok" THEN List(RemoteEmployees) ELSE List(<<>>)

\* data.records, data.data
Field(row, name) == IF name \in DOMAIN row[2] THEN row[2][name] ELSE Undefined

\* lines 178-203; "error" is a response that is not ok
fetchLeaveData(outcome, shape) ==
    IF outcome # "ok" THEN List(<<>>)
    ELSE LET data == LeavePayload(shape)
         IN  IF data[1] = "list" THEN data
             ELSE IF ToBoolean(Field(data, "records")) THEN Field(data, "records")
             ELSE IF ToBoolean(Field(data, "data")) THEN Field(data, "data")
             ELSE List(<<>>)

\* lines 209-232
fetchRecruitmentData(outcome) ==
    IF outcome = "ok" THEN List(RemoteRecruitment) ELSE List(<<>>)

fetchTasks_noCatch(outcome, sv) ==
    IF outcome = "ok" THEN List(RemoteTasks(sv))
    ELSE IF outcome = "error" THEN List(<<>>)
    ELSE <<"throw", "TypeError: Failed to fetch">>

\* lines 238-256
fetchTasks(outcome, sv) ==
    IF outcome = "ok" THEN List(RemoteTasks(sv)) ELSE List(<<>>)

IsArray(v) == v[1] = "list"
ItemsOf(v) == v[2]

\* a call of loadDashboardData that waits at line 1444
NewLoad == [pc |-> "fetching", failed |-> {}, at |-> EmptyObject,
            got |-> EmptyObject, order |-> 0]

\* lines 1452-1455
storeFetched(dd, got) ==
    [dd EXCEPT !.employees = got.employees, !.leaveData = got.leaveData,
               !.recruitmentData = got.recruitmentData, !.tasks = got.tasks]

\* lines 1458-1467: {...empStats, ...leaveStats, ...recruitmentStats}
snapshotStats(emps, leaves, cands) ==
    calculateEmployeeStats(emps) @@ calculateLeaveStats(leaves)
        @@ calculateRecruitmentStats(cands)

\* lines 1473-1486: what the render functions put on the page
pendingTask(t) == Is(t.status, "pending")

renderAll(emps, tasks, st, as) ==
    [alerts |-> as,
     stats |-> st,
     departments |-> sortByCount(calculateDepartmentBreakdown(emps)),
     tasks |-> SelectSeq(tasks, pendingTask),
     clicked |-> 0]

\* lines 1458-1494 with the statistics st and the alerts as: the snapshot
\* and the page they leave
calculateAndRender(stored, tasks, st, as) ==
    [data |-> [stored EXCEPT !.stats = st, !.alerts = as],
     page |-> renderAll(ItemsOf(stored.employees), tasks, st, as),
     ok |-> TRUE]

\* lines 1444-1501 from the moment the four promises have settled, on the
\* snapshot dd at clock c: the snapshot and the page it leaves, and whether
\* it ran to line 1494
continueLoad(dd, shown, got, c, tz) ==
    IF \E s \in Sources : IsThrown(got[s])
    THEN \* Promise.all rejects: line 1496
         [data |-> dd, page |-> shown, ok |-> FALSE]
    ELSE IF ~IsArray(got.leaveData)
    THEN \* line 1459: leaveData.forEach is not a function
         [data |-> storeFetched(dd, got), page |-> shown, ok |-> FALSE]
    ELSE calculateAndRender(storeFetched(dd, got), ItemsOf(got.tasks),
                            snapshotStats(ItemsOf(got.employees),
                                          ItemsOf(got.leaveData),
                                          ItemsOf(got.recruitmentData)),
                            criticalAlerts(ItemsOf(got.employees),
                                           ItemsOf(got.leaveData), c, tz))

----------------------------------------------------------------------------
(* SECTION 11: ALERT ACTION HANDLERS; inside them alert is the parameter,   *)
(* so alert('...') in their guards calls an object and throws               *)

employeeMissing(a) == ~ToBoolean(a.employee) \/ ~ToBoolean(a.employee[2].id)

handleContractExpiringAction(a) ==
    IF employeeMissing(a) THEN Thrown("TypeError")
    ELSE Href("employees.html",
              <<<<"id", a.employee[2].id>>, <<"tab", Text("contract")>>>>)

handleBirthdayAction(a) ==
    IF employeeMissing(a) THEN Thrown("TypeError")
    ELSE Href("whatsapp-blast.html",
              <<<<"template", Text("birthday")>>, <<"employee", a.employee[2].id>>>>)

handleAnniversaryAction_noYears(a) ==
    IF employeeMissing(a) THEN Thrown("TypeError")
    ELSE Href("whatsapp-blast.html",
              <<<<"template", Text("anniversary")>>,
                <<"employee", a.employee[2].id>>>>)

handleAnniversaryAction(a) ==
    IF employeeMissing(a) THEN Thrown("TypeError")
    ELSE Href("whatsapp-blast.html",
              <<<<"template", Text("anniversary")>>,
                <<"employee", a.employee[2].id>>, <<"years", Num(a.n)>>>>)

handleProbationAction(a) ==
    IF employeeMissing(a) THEN Thrown("TypeError")
    ELSE Href("employees.html",
              <<<<"id", a.employee[2].id>>, <<"action", Text("review_probation")>>>>)

handleLeavePendingAction_unguarded(a) == Href("leave.html", <<>>)

handleLeavePendingAction(a) ==
    IF ~ToBoolean(a.leave) THEN Thrown("TypeError")
    ELSE Href("leave.html", <<>>)

\* lines 1325-1360: the page to go to, Undefined when the handler returns
\* without going anywhere
handleAlertAction(type, index, dd) ==
    IF index \notin DOMAIN dd.alerts THEN Undefined
    ELSE LET a == dd.alerts[index]
         IN  CASE type = "contract"      -> handleContractExpiringAction(a)
               [] type = "birthday"      -> handleBirthdayAction(a)
               [] type = "anniversary"   -> handleAnniversaryAction(a)
               [] type = "probation"     -> handleProbationAction(a)
               [] type = "leave_pending" -> handleLeavePendingAction(a)
               [] OTHER                  -> Thrown("TypeError")

----------------------------------------------------------------------------
(* The page at work *)

\* instance.destroy()
destroyChart(live, canvas, instance) == live \ {<<canvas, instance>>}

renderHeadcountChart_noDestroy(ch) ==
    [ch EXCEPT !.live = @ \cup {<<"headcountChart", ch.made + 1>>},
               !.headcountChartInstance = ch.made + 1,
               !.made = @ + 1]

\* lines 1011-1027: destroy the previous instance if there is one, then
\* headcountChartInstance = new Chart(ctx, ...)
renderHeadcountChart(ch) ==
    [ch EXCEPT !.live = (IF ch.headcountChartInstance # 0
                         THEN destroyChart(@, "headcountChart",
                                           ch.headcountChartInstance)
                         ELSE @)
                        \cup {<<"headcountChart", ch.made + 1>>},
               !.headcountChartInstance = ch.made + 1,
               !.made = @ + 1]

\* lines 1116-1132
renderTurnoverChart(ch) ==
    [ch EXCEPT !.live = (IF ch.turnoverChartInstance # 0
                         THEN destroyChart(@, "turnoverChart",
                                           ch.turnoverChartInstance)
                         ELSE @)
                        \cup {<<"turnoverChart", ch.made + 1>>},
               !.turnoverChartInstance = ch.made + 1,
               !.made = @ + 1]

\* lines 1512-1520: refreshDashboard destroys both instances and clears the
\* handles
destroyCharts(ch) ==
    [ch EXCEPT !.live = {c \in @ : /\ c # <<"headcountChart", ch.headcountChartInstance>>
                                   /\ c # <<"turnoverChart", ch.turnoverChartInstance>>},
               !.headcountChartInstance = 0,
               !.turnoverChartInstance = 0]

updateBadge_toggle(badge, as) == [badge EXCEPT !.hidden = Len(as) = 0]

\* lines 1488-1492: the class hidden is removed when there are alerts
updateBadge(badge, as) ==
    IF Len(as) > 0 THEN [badge EXCEPT !.hidden = FALSE] ELSE badge

OnPage == location = Href("dashboard.html", <<>>)

InitLoad ==
    /\ clock = LoadClock
    /\ zone = "Asia/Jakarta"
    /\ employees = <<>>
    /\ leaveData = <<>>
    /\ InitRun

runVars == <<clock, zone, employees, leaveData, pc, today, alerts, emitted,
             cur, tmp, reads, ticks, rawStatus, normalized>>

\* lines 1507-1522: refreshDashboard calls loadDashboardData, which sends the
\* four requests and waits
RefreshDashboard ==
    /\ OnPage
    /\ Len(loads) < MaxLoads
    /\ charts' = destroyCharts(charts)
    /\ loads' = Append(loads, NewLoad)
    /\ UNCHANGED <<runVars, statVars, dashboardData, server, rendered, location,
                   notificationBadge, opVars>>

\* lines 1262-1278: the task is toggled in the store, then the page reloads
ToggleTaskCompletion ==
    /\ OnPage
    /\ Len(loads) < MaxLoads
    /\ server' = [server EXCEPT !.task = IF @ = "pending" THEN "completed"
                                         ELSE "pending"]
    /\ loads' = Append(loads, NewLoad)
    /\ UNCHANGED <<runVars, statVars, dashboardData, rendered, location, charts,
                   notificationBadge, opVars>>

\* the four requests of load i are answered by the stores as they are now,
\* or fail, each on its own
Respond(i) ==
    /\ OnPage
    /\ loads[i].pc = "fetching"
    /\ \E outcome \in [Sources -> Outcomes], shape \in LeaveShapes :
          loads' = [loads EXCEPT ![i] =
              [pc |-> "settled",
               failed |-> {s \in Sources : outcome[s] # "ok"},
               at |-> server,
               got |-> [employees |-> fetchEmployees(outcome["employees"]),
                        leaveData |-> fetchLeaveData(outcome["leaveData"], shape),
                        recruitmentData |->
                            fetchRecruitmentData(outcome["recruitmentData"]),
                        tasks |-> fetchTasks(outcome["tasks"], server)],
               order |-> 0]]
    /\ UNCHANGED <<runVars, statVars, dashboardData, server, rendered, location,
                   charts, notificationBadge, opVars>>

\* how many loads have run their continuation
Completed == Cardinality({j \in DOMAIN loads : loads[j].order > 0})

\* the answers of load i have arrived: lines 1451-1501 run
Complete(i) ==
    /\ OnPage
    /\ loads[i].pc = "settled"
    /\ \E r \in {continueLoad(dashboardData, rendered, loads[i].got,
                                clock, tzOffset)} :
           /\ dashboardData' = r.data
           /\ rendered' = r.page
           /\ charts' = IF r.ok THEN renderTurnoverChart(renderHeadcountChart(charts))
                         ELSE charts
           /\ notificationBadge' = IF r.ok
                                    THEN updateBadge(notificationBadge, r.data.alerts)
                                    ELSE notificationBadge
           /\ loads' = [loads EXCEPT ![i].pc = IF r.ok THEN "done" ELSE "failed",
                                     ![i].order = Completed + 1]
    /\ UNCHANGED <<runVars, statVars, server, location, opVars>>

\* the button of the k-th alert shown is pressed:
\* onclick="handleAlertAction('${alert.type}', ${index})"
HandleAlertAction(k) ==
    /\ OnPage
    /\ LET to == handleAlertAction(rendered.alerts[k].type, k, dashboardData)
       IN  location' = IF to = Undefined \/ IsThrown(to) THEN location ELSE to
    /\ rendered' = [rendered EXCEPT !.clicked = k]
    /\ UNCHANGED <<runVars, statVars, dashboardData, loads, server, charts,
                   notificationBadge, opVars>>

NextLoad ==
    \/ RefreshDashboard
    \/ ToggleTaskCompletion
    \/ \E i \in DOMAIN loads : Respond(i)
    \/ \E i \in DOMAIN loads : Complete(i)
    \/ \E k \in DOMAIN rendered.alerts : HandleAlertAction(k)

SpecLoad == InitLoad /\ [][NextLoad]_vars

----------------------------------------------------------------------------
(* Properties of the page *)

\* the loads that have run their continuation, and the one that ran it last
Ran == {j \in DOMAIN loads : loads[j].order > 0}
LastRan == CHOOSE j \in Ran : loads[j].order = Completed

\* what source s of load j holds when it is answered, and nothing when the
\* request failed
Answered(j, s) ==
    IF s \in loads[j].failed THEN <<>>
    ELSE CASE s = "employees"       -> RemoteEmployees
           [] s = "leaveData"       -> RemoteLeaves
           [] s = "recruitmentData" -> RemoteRecruitment
           [] s = "tasks"           -> RemoteTasks(loads[j].at)

\* the leave API did not answer load j with a body that holds a message
\* where the records should be
WellFormed(j) == IsArray(loads[j].got.leaveData)

TypesOf(as) == {as[i].type : i \in DOMAIN as}

\* C11: a load whose requests fail, any of the four and any number of them,
\* rejected or answered with an error, does not abort: each failed source
\* counts as an empty array, and the snapshot, its statistics, its alerts
\* and the page are those of the sources that were answered.
C11_FailedFetchIsEmpty ==
    (Ran # {} /\ WellFormed(LastRan)) =>
        LET j  == LastRan
            E  == Answered(j, "employees")
            L  == Answered(j, "leaveData")
            R  == Answered(j, "recruitmentData")
            T  == Answered(j, "tasks")
            dd == dashboardData
        IN  /\ loads[j].pc = "done"
            /\ dd.employees = List(E) /\ dd.leaveData = List(L)
            /\ dd.recruitmentData = List(R) /\ dd.tasks = List(T)
            /\ dd.stats = snapshotStats(E, L, R)
            /\ dd.stats.totalEmployees = Len(E)
            /\ dd.stats.pendingLeaves = Len(L)
            /\ dd.stats.screening + dd.stats.interview = Len(R)
            /\ dd.alerts = criticalAlerts(E, L, clock, tzOffset)
            /\ TypesOf(dd.alerts) =
                   (IF E = <<>> THEN {}
                    ELSE {"contract", "birthday", "anniversary", "probation"})
                   \cup (IF L = <<>> THEN {} ELSE {"leave_pending"})
            /\ [rendered EXCEPT !.clicked = 0] = renderAll(E, T, dd.stats, dd.alerts)
            /\ Len(rendered.tasks) =
                   Cardinality({i \in DOMAIN T : T[i].status = Text("pending")})

\* the employees and the tasks requests failed, the other two were answered
C11_Witness ==
    /\ Ran # {}
    /\ loads[LastRan].failed = {"employees", "tasks"}
    /\ loads[LastRan].pc = "done"
    /\ TypesOf(dashboardData.alerts) = {"leave_pending"}
    /\ dashboardData.stats.interview = 1

\* the snapshot dd is the whole result of load j
ResultOf(dd, j) ==
    /\ loads[j].pc = "done"
    /\ \A s \in Sources : dd[s] = loads[j].got[s]

\* the statistics and the alerts of snapshot dd are those of its own rows
SelfConsistent(dd) ==
    /\ \A s \in Sources : IsArray(dd[s])
    /\ dd.stats = snapshotStats(ItemsOf(dd.employees), ItemsOf(dd.leaveData),
                                ItemsOf(dd.recruitmentData))
    /\ dd.alerts = criticalAlerts(ItemsOf(dd.employees), ItemsOf(dd.leaveData),
                                  clock, tzOffset)

\* C12: after any sequence of loads the snapshot dashboardData is the
\* initial empty one or the whole result of one load: its statistics and
\* alerts are those of the employees, leave and recruitment rows it holds,
\* and a load that fails part-way leaves the snapshot as it was.
C12_SnapshotOfOneLoad ==
    \/ dashboardData = InitialSnapshot
    \/ /\ SelfConsistent(dashboardData)
       /\ \E j \in Ran : ResultOf(dashboardData, j)

\* every load started has run its continuation to the end
AllDone == loads # <<>> /\ \A j \in DOMAIN loads : loads[j].pc = "done"

\* no request of any load failed
AllAnswered == \A j \in DOMAIN loads : loads[j].failed = {}

\* C13: when a load is started while an earlier one is still in flight, the
\* results of the earlier one are discarded: once all loads have completed,
\* the snapshot and the page are those of the load that was started last,
\* in whatever order the answers arrived.  Stated for loads whose requests
\* were all answered, so that the loads differ in nothing but the moment
\* the stores answered them.
C13_LaterLoadWins ==
    (AllDone /\ AllAnswered) =>
        LET j == Len(loads)
        IN  /\ ResultOf(dashboardData, j)
            /\ rendered.tasks = SelectSeq(ItemsOf(loads[j].got.tasks), pendingTask)
            /\ rendered.alerts = criticalAlerts(ItemsOf(loads[j].got.employees),
                                                ItemsOf(loads[j].got.leaveData),
                                                clock, tzOffset)

----------------------------------------------------------------------------
(* SECTION 4 applied: the statistics functions on lists of rows, in the     *)
(* order loadDashboardData and the render functions call them               *)

MaxStaff == 3
MaxRequests == 2
MaxCandidates == 2

\* rows of the employees table
HrMan ==
    Person(Text("e-1"), Bool(TRUE), Bool(FALSE), Text("Male"),
           Department(Text("HR")), DateStr(2024, 10, 31), Null)
HrWoman ==
    Person(Text("e-2"), Bool(TRUE), Bool(FALSE), Text("Female"),
           Department(Text("HR")), DateStr(2020, 1, 3), Null)
Leaver ==
    Person(Text("e-3"), Bool(TRUE), Bool(TRUE), Text("Male"),
           Department(Text("IT")), DateStr(2023, 5, 1), DateStr(2024, 11, 15))
Resigned ==
    Person(Text("e-4"), Bool(FALSE), Bool(TRUE), Text("Female"),
           Department(Text("IT")), DateStr(2022, 8, 15), DateStr(2024, 9, 30))
Suspended ==
    Person(Text("e-5"), Bool(FALSE), Bool(FALSE), Text("Female"),
           Null, DateStr(2024, 12, 1), Null)
Unassigned ==
    Person(Text("e-6"), Bool(TRUE), Bool(FALSE), Null,
           Null, Null, Null)
Unnamed ==
    Person(Text("e-7"), Bool(TRUE), Bool(FALSE), Text("Male"),
           Department(Null), BadStr, Null)
Blank ==
    Person(Undefined, Undefined, Null, Undefined,
           Undefined, Undefined, Undefined)
Builder ==
    Person(Text("e-9"), Bool(TRUE), Bool(FALSE), Text("Male"),
           Department(Text("constructor")), DateStr(2024, 7, 1), Null)

StaffPool ==
    {HrMan, HrWoman, Leaver, Resigned, Suspended, Unassigned, Unnamed, Blank,
     Builder}

\* 10 employees: 3 resigned, 5 active and not resigned, 2 neither
TenEmployees ==
    <<Leaver, Resigned, Resigned, HrMan, HrWoman, HrWoman, Unassigned,
      Unnamed, Suspended, Blank>>

StatuslessLeave == Leave(Null, IsoStr(WIBClock(2024, 12, 1, 10)), Undefined)
RequestPool == LeavePool \cup {StatuslessLeave}

CandidatePool ==
    {Candidate(Text("Screening")), Candidate(Text("HR Interview")),
     Candidate(Text("User Interview")), Candidate(Text("Offering")),
     Candidate(Text("Hired")), Candidate(Null), Candidate(Undefined)}

StatsClocks == {WIBClock(2024, 12, 24, 23), WIBClock(2025, 1, 31, 12)}

InitStats ==
    /\ zone \in MachineZones
    /\ clock \in StatsClocks
    /\ \/ /\ employees \in SeqsUpTo(StaffPool, MaxStaff)
          /\ leaveData = <<>>
          /\ recruitmentData = <<>>
       \/ /\ employees = TenEmployees
          /\ leaveData \in SeqsUpTo(RequestPool, MaxRequests)
          /\ recruitmentData = <<>>
       \/ /\ employees = TenEmployees
          /\ leaveData = <<>>
          /\ recruitmentData \in SeqsUpTo(CandidatePool, MaxCandidates)
    /\ pc = "idle"
    /\ stats = EmptyObject
    /\ today = DateObj(NaN)
    /\ alerts = <<>>
    /\ emitted = <<>>
    /\ cur = 0
    /\ tmp = NaN
    /\ reads = <<>>
    /\ ticks = 0
    /\ rawStatus = NoStatus
    /\ normalized = "none"
    /\ InitPage

\* obj.key = value
Put(obj, key, value) ==
    [n \in DOMAIN obj \cup {key} |-> IF n = key THEN value ELSE obj[n]]

\* line 370: e.is_active && !e.is_resigned
countedInBreakdown(emp) == ToBoolean(emp.is_active) /\ ~ToBoolean(emp.is_resigned)

\* line 371 throws for one of the rows the filter lets through
breakdownThrows(emps) ==
    \E k \in DOMAIN emps :
        countedInBreakdown(emps[k]) /\ IsThrown(departmentName(emps[k]))

statsUnchanged ==
    UNCHANGED <<clock, zone, employees, leaveData, today, alerts, emitted, cur,
                tmp, reads, ticks, rawStatus, normalized, recruitmentData,
                loadVars>>

\* lines 1458-1467
CalculateStats ==
    /\ pc = "idle"
    /\ IF breakdownThrows(employees)
       THEN pc' = "failed" /\ UNCHANGED stats
       ELSE /\ pc' = "calculated"
            /\ stats' = Put(Put(stats, "snapshot",
                                snapshotStats(employees, leaveData, recruitmentData)),
                            "deptBreakdown", calculateDepartmentBreakdown(employees))
    /\ statsUnchanged

\* line 1470
GenerateAlerts ==
    /\ pc = "calculated"
    /\ pc' = "alerted"
    /\ stats' = Put(stats, "alerts",
                    criticalAlerts(employees, leaveData, clock, tzOffset))
    /\ statsUnchanged

\* line 1482, lines 639-640
RenderDepartmentBreakdown ==
    /\ pc = "alerted"
    /\ pc' = "listed"
    /\ stats' = Put(stats, "departments", sortByCount(stats.deptBreakdown))
    /\ statsUnchanged

\* line 1485, line 1024
RenderHeadcountChart ==
    /\ pc = "listed"
    /\ pc' = "charted"
    /\ stats' = Put(stats, "monthsData",
                    calculateMonthlyHeadcount(employees, clock, tzOffset))
    /\ statsUnchanged

\* line 1486, line 1129
RenderTurnoverChart ==
    /\ pc = "charted"
    /\ pc' = "rendered"
    /\ stats' = Put(stats, "turnoverData", calculateTurnoverData(employees))
    /\ statsUnchanged

NextStats ==
    \/ CalculateStats
    \/ GenerateAlerts
    \/ RenderDepartmentBreakdown
    \/ RenderHeadcountChart
    \/ RenderTurnoverChart

SpecStats == InitStats /\ [][NextStats]_vars

Rendered == pc = "rendered"

----------------------------------------------------------------------------
(* Properties of the statistics                                             *)

\* the text of a number of tenths, as "30.0" for 300
TenthsText(r) == Str(Digits(r \div 10) \o <<".">> \o Digits(r % 10))

\* r tenths is a rounding to one decimal of num/den as a percentage
NearestTenth(r, num, den) ==
    LET diff == r * den - 1000 * num
    IN  2 * (IF diff < 0 THEN -diff ELSE diff) <= den

\* C14: calculateTurnoverData puts every employee in exactly one of resigned,
\* active, inactive, is_resigned being looked at before is_active, so
\* resigned + active + inactive = total = the number of employees;
\* turnoverRate is resigned/total as a percentage with one decimal (3 of 10
\* gives "30.0") and 0 for the empty list.
C14_TurnoverPartition ==
    Rendered =>
        LET t == stats.turnoverData
            resigned == {i \in DOMAIN employees : ToBoolean(employees[i].is_resigned)}
            active   == {i \in DOMAIN employees :
                            ~ToBoolean(employees[i].is_resigned)
                            /\ ToBoolean(employees[i].is_active)}
        IN  /\ t.resigned = Cardinality(resigned)
            /\ t.active = Cardinality(active)
            /\ t.resigned + t.active + t.inactive = t.total
            /\ t.total = Len(employees)
            /\ IF employees = <<>> THEN t.turnoverRate = Num(0)
               ELSE \E r \in 0..1000 :
                       /\ t.turnoverRate = TenthsText(r)
                       /\ NearestTenth(r, t.resigned, t.total)
            /\ employees = TenEmployees =>
                   t = [active |-> 5, resigned |-> 3, inactive |-> 2, total |-> 10,
                        turnoverRate |-> Str(<<"3", "0", ".", "0">>)]

\* the 10 employees of the example have been charted, one of the resigned
\* ones still flagged active
C14_Witness ==
    /\ Rendered
    /\ employees = TenEmployees
    /\ \E i \in DOMAIN employees :
           ToBoolean(employees[i].is_resigned) /\ ToBoolean(employees[i].is_active)
    /\ stats.turnoverData.turnoverRate = Str(<<"3", "0", ".", "0">>)

----------------------------------------------------------------------------
(* Properties of the alert rules: the flags is_active and is_resigned       *)

\* the list with nobody resigned
NobodyResigned(emps) == [i \in DOMAIN emps |-> [emps[i] EXCEPT !.is_resigned = FALSE]]

\* the alerts about employees
AboutEmployee(a) == a.type \in {"contract", "birthday", "anniversary", "probation"}

\* C15: an employee with is_active false never produces a contract,
\* birthday, anniversary or probation alert; an employee with is_resigned
\* true produces them only if it is is_active too, and then exactly as a
\* non-resigned active employee does: the alerts of a run are those of the
\* same list with nobody resigned (for runs during which the clock reads
\* the same hour throughout).
C15_ResignedAsActive ==
    Done =>
        /\ \A i \in DOMAIN alerts :
               AboutEmployee(alerts[i]) => employees[alerts[i].idx].is_active
        /\ ticks = 0 =>
               alerts = generateCriticalAlerts(NobodyResigned(employees), leaveData,
                                               clock, tzOffset)

\* a run that alerted about the contract of an employee that is resigned
\* and active
C15_Witness ==
    /\ Done
    /\ ticks = 0
    /\ \E i \in DOMAIN alerts :
           /\ alerts[i].type = "contract"
           /\ employees[alerts[i].idx].is_resigned
           /\ employees[alerts[i].idx].is_active

----------------------------------------------------------------------------
(* Properties of the alert actions                                          *)

\* the alert whose button was pressed, as it was shown
Pressed == rendered.alerts[rendered.clicked]

\* the id of the employee an alert is about
SubjectId(a) == a.employee[2].id

\* C16: the follow-up action of an alert goes to the target its type fixes,
\* with the parameters required: contract -> employee detail with the id and
\* tab=contract; birthday -> bulk messaging with template=birthday and the
\* id; anniversary -> bulk messaging with template=anniversary, the id and
\* years = the years of the alert; probation -> employee detail with the id
\* and action=review_probation; leave_pending -> the leave page, no request
\* named.
C16_AlertActionTarget ==
    ~OnPage =>
        LET a == Pressed
        IN  CASE a.type = "contract" ->
                   location = <<"employees.html",
                                <<<<"id", SubjectId(a)>>, <<"tab", Text("contract")>>>>>>
              [] a.type = "birthday" ->
                   location = <<"whatsapp-blast.html",
                                <<<<"template", Text("birthday")>>,
                                  <<"employee", SubjectId(a)>>>>>>
              [] a.type = "anniversary" ->
                   location = <<"whatsapp-blast.html",
                                <<<<"template", Text("anniversary")>>,
                                  <<"employee", SubjectId(a)>>,
                                  <<"years", Num(a.n)>>>>>>
              [] a.type = "probation" ->
                   location = <<"employees.html",
                                <<<<"id", SubjectId(a)>>,
                                  <<"action", Text("review_probation")>>>>>>
              [] a.type = "leave_pending" -> location = <<"leave.html", <<>>>>
              [] OTHER -> FALSE

\* the button of an anniversary alert was pressed and the browser left for
\* the bulk messaging page
C16_Witness ==
    /\ ~OnPage
    /\ Pressed.type = "anniversary"
    /\ Pressed.n > 0
    /\ location[1] = "whatsapp-blast.html"

----------------------------------------------------------------------------
(* Properties of the department breakdown                                   *)

\* the employees of the list that are active and not resigned
ActiveStaff == {i \in DOMAIN employees : countedInBreakdown(employees[i])}

\* the sum of the counts of the entries
RECURSIVE SumOfCounts(_)
SumOfCounts(entries) ==
    IF entries = <<>> THEN 0
    ELSE Head(entries)[2].count + SumOfCounts(Tail(entries))

\* the name the store holds for the department of a row, "Unknown" if none
LabelOf(emp) ==
    IF emp.departments[1] = "row" /\ ToBoolean(emp.departments[2].name)
    THEN emp.departments[2].name[2]
    ELSE "Unknown"

\* C17: calculateDepartmentBreakdown counts only the employees that are
\* active and not resigned, grouped by department name, 'Unknown' when the
\* department is missing, with male + female <= count in each department;
\* the counts add up to the number of active non-resigned employees, which
\* is calculateEmployeeStats.activeEmployees and calculateTurnoverData.active;
\* the list rendered is in descending order of count.
C17_DepartmentBreakdown ==
    Rendered =>
        LET b == stats.deptBreakdown
            shown == stats.departments
        IN  /\ \A i \in DOMAIN b :
                   /\ b[i][2].count =
                          Cardinality({k \in ActiveStaff : LabelOf(employees[k]) = b[i][1]})
                   /\ b[i][2].male + b[i][2].female <= b[i][2].count
            /\ \A k \in ActiveStaff : \E i \in DOMAIN b : b[i][1] = LabelOf(employees[k])
            /\ SumOfCounts(b) = Cardinality(ActiveStaff)
            /\ SumOfCounts(b) = stats.snapshot.activeEmployees
            /\ SumOfCounts(b) = stats.turnoverData.active
            /\ Len(shown) = Len(b)
            /\ \A i \in DOMAIN shown : \E j \in DOMAIN b : shown[i] = b[j]
            /\ \A i, j \in DOMAIN shown : i < j => shown[i][2].count >= shown[j][2].count

----------------------------------------------------------------------------
(* Properties of the headcount series                                       *)

\* the number of a calendar month, January being month 1 of its year
MonthIndex(year, month) == year * 12 + month

\* the calendar month of the WIB wall clock now
CurrentMonth ==
    LET t == NewDate(getWIBDate(clock), tzOffset)
    IN  MonthIndex(Val(getFullYear(t, tzOffset)), Val(getMonth(t, tzOffset)))

\* the date column holds a calendar date that falls in month number m or
\* before it
OnOrBeforeEndOf(v, m) == v[1] = "date" /\ MonthIndex(v[2], v[3]) <= m

\* the date column holds a calendar date after the last day of month m
AfterEndOf(v, m) == v[1] = "date" /\ MonthIndex(v[2], v[3]) > m

\* C18: calculateMonthlyHeadcount returns series of exactly 6 entries, one
\* per calendar month from five months before the current month to the
\* current month, oldest first; total counts the employees whose join date
\* is on or before the last day of the month (the last day included) and
\* active those of them whose resignation date is null or after the end of
\* the month; so active <= total in each month and total never decreases.
C18_MonthlyHeadcount ==
    Rendered =>
        LET h == stats.monthsData
            monthOf(k) == CurrentMonth - (6 - k)
            joined(k) == {i \in DOMAIN employees :
                              OnOrBeforeEndOf(employees[i].join_date, monthOf(k))}
            staying(k) == {i \in joined(k) :
                              \/ employees[i].resign_date \in {Null, Undefined}
                              \/ AfterEndOf(employees[i].resign_date, monthOf(k))}
        IN  /\ DOMAIN h.labels = 1..6 /\ DOMAIN h.total = 1..6 /\ DOMAIN h.active = 1..6
            /\ \A k \in 1..6 :
                   /\ MonthIndex(h.labels[k][1], h.labels[k][2]) = monthOf(k)
                   /\ h.total[k] = Cardinality(joined(k))
                   /\ h.active[k] = Cardinality(staying(k))
                   /\ h.active[k] <= h.total[k]
            /\ \A k \in 1..5 : h.total[k] <= h.total[k + 1]

----------------------------------------------------------------------------
(* Properties of the leave statistics                                       *)

\* how many alerts of the list are about a pending leave request
LeavePendingAlerts(as) == Cardinality({i \in DOMAIN as : as[i].type = "leave_pending"})

\* C19: calculateLeaveStats counts every leave record under exactly one of
\* pending, approved, rejected, the one normalizeLeaveStatus gives (the rule
\* the leave-pending alert uses), so the three add up to the number of leave
\* records, and there are never more leave_pending alerts than pendingLeaves.
C19_LeavePartition ==
    Rendered =>
        LET s == stats.snapshot
            as(word) == {i \in DOMAIN leaveData :
                            normalizeLeaveStatus(leaveData[i].status) = word}
        IN  /\ s.pendingLeaves = Cardinality(as("Pending"))
            /\ s.approvedLeaves = Cardinality(as("Approved"))
            /\ s.rejectedLeaves = Cardinality(as("Declined"))
            /\ s.pendingLeaves + s.approvedLeaves + s.rejectedLeaves = Len(leaveData)
            /\ LeavePendingAlerts(stats.alerts) <= s.pendingLeaves
            /\ \A i \in DOMAIN stats.alerts :
                   stats.alerts[i].type = "leave_pending" =>
                       normalizeLeaveStatus(stats.alerts[i].leave[2].status) = "Pending"

\* two requests, one approved in words the sheet uses and one pending that
\* is alerted about
C19_Witness ==
    /\ Rendered
    /\ Len(leaveData) = 2
    /\ stats.snapshot.approvedLeaves = 1
    /\ stats.snapshot.pendingLeaves = 1
    /\ LeavePendingAlerts(stats.alerts) = 1

----------------------------------------------------------------------------
(* Properties of the statistics on rows with fields missing                 *)

Missing(v) == v \in {Null, Undefined}

\* the entry of a department in the breakdown, a zero entry if it has none
EntryNamed(b, name) ==
    IF \E i \in DOMAIN b : b[i][1] = name
    THEN b[CHOOSE i \in DOMAIN b : b[i][1] = name][2]
    ELSE [count |-> 0, male |-> 0, female |-> 0]

\* C20: calculateEmployeeStats, calculateLeaveStats,
\* calculateRecruitmentStats, calculateDepartmentBreakdown,
\* calculateMonthlyHeadcount and calculateTurnoverData never throw when a
\* field of a record is null or undefined; the record is counted with a safe
\* default: in no gender or stage bucket, under department 'Unknown', as
\* status Pending, and not in the headcount series when its join date is
\* missing.
C20_MissingFieldsAreSafe ==
    /\ pc # "failed"
    /\ Rendered =>
        LET s == stats.snapshot
            genderless == {i \in DOMAIN employees : Missing(employees[i].gender)}
            homeless   == {i \in ActiveStaff :
                              \/ Missing(employees[i].departments)
                              \/ Missing(employees[i].departments[2].name)}
            dateless   == {i \in DOMAIN employees : Missing(employees[i].join_date)}
            statusless == {i \in DOMAIN leaveData : Missing(leaveData[i].status)}
            stageless  == {i \in DOMAIN recruitmentData :
                              Missing(recruitmentData[i].current_stage)}
        IN  /\ s.totalEmployees = Len(employees)
            /\ s.totalMale + s.totalFemale <= Len(employees) - Cardinality(genderless)
            /\ s.activeMale + s.activeFemale
                   <= s.activeEmployees - Cardinality(genderless \cap ActiveStaff)
            /\ EntryNamed(stats.deptBreakdown, "Unknown").count = Cardinality(homeless)
            /\ s.pendingLeaves >= Cardinality(statusless)
            /\ s.approvedLeaves + s.rejectedLeaves
                   <= Len(leaveData) - Cardinality(statusless)
            /\ s.screening + s.interview + s.offering
                   <= Len(recruitmentData) - Cardinality(stageless)
            /\ \A k \in 1..6 :
                   stats.monthsData.total[k] <= Len(employees) - Cardinality(dateless)
            /\ stats.turnoverData.total = Len(employees)

\* the statistics of a list that holds a row with every field undefined and
\* an active row without department, gender or dates
C20_Witness ==
    /\ Rendered
    /\ \E i, j \in DOMAIN employees : employees[i] = Blank /\ employees[j] = Unassigned
    /\ EntryNamed(stats.deptBreakdown, "Unknown").count > 0

----------------------------------------------------------------------------
(* Properties of the employee counts                                        *)

\* the employees that are both active and resigned
ActiveAndResigned ==
    {i \in DOMAIN employees :
        ToBoolean(employees[i].is_active) /\ ToBoolean(employees[i].is_resigned)}

OfGender(S, gender) == {i \in S : Is(employees[i].gender, gender)}

\* C29: calculateEmployeeStats counts an employee as active only if it is
\* is_active and not is_resigned, and as inactive only if it is not
\* is_active, so activeEmployees + inactiveEmployees <= totalEmployees and
\* the difference is the number of employees both is_active and is_resigned;
\* the same holds for the male and the female counts.
C29_ActivePlusInactive ==
    Rendered =>
        LET s == stats.snapshot
        IN  /\ s.activeEmployees + s.inactiveEmployees <= s.totalEmployees
            /\ s.totalEmployees - (s.activeEmployees + s.inactiveEmployees)
                   = Cardinality(ActiveAndResigned)
            /\ s.totalMale - (s.activeMale + s.inactiveMale)
                   = Cardinality(OfGender(ActiveAndResigned, "Male"))
            /\ s.totalFemale - (s.activeFemale + s.inactiveFemale)
                   = Cardinality(OfGender(ActiveAndResigned, "Female"))
            /\ s.activeEmployees = Cardinality(ActiveStaff)
            /\ s.inactiveEmployees =
                   Cardinality({i \in DOMAIN employees :
                                   ~ToBoolean(employees[i].is_active)})

\* a list with an employee that is active and resigned, next to an active
\* and an inactive one, has been counted
C29_Witness ==
    /\ Rendered
    /\ Cardinality(OfGender(ActiveAndResigned, "Male")) > 0
    /\ stats.snapshot.activeEmployees > 0
    /\ stats.snapshot.inactiveEmployees > 0
    /\ stats.snapshot.activeEmployees + stats.snapshot.inactiveEmployees
           < stats.snapshot.totalEmployees

----------------------------------------------------------------------------
(* Properties of the anniversary rule at the turn of the year               *)

\* every reading of the clock in the run fell in December
InDecember == \A i \in DOMAIN reads : reads[i][3] = 12

\* the days from the WIB date of a reading to the given day of the January
\* that follows
DaysToJanuary(read, day) == (31 - read[4]) + day

\* C30: the anniversary rule looks only at the anniversary in now's calendar
\* year: for an active employee who joined in the first days of January, no
\* anniversary alert is emitted while now is in the last days of December
\* of the year before, although the next anniversary is 7 or fewer days
\* away.
C30_NoAlertAcrossNewYear ==
    (Done /\ InDecember) =>
        \A k \in DOMAIN employees :
            LET e == employees[k]
                j == e.join_date
            IN  (/\ e.is_active
                 /\ IsDate(j)
                 /\ j[3] = 1
                 /\ \A i \in DOMAIN reads : DaysToJanuary(reads[i], j[4]) \in 0..7)
                    => AlertsFor("anniversary", k) = {}

----------------------------------------------------------------------------
(* Properties of the charts and of the notification badge                   *)

\* the Chart instances alive on a canvas
LiveOn(canvas) == {c \in charts.live : c[1] = canvas}

\* at most one instance alive per canvas, and it is the one the handle holds
OneChartEach ==
    /\ Cardinality(LiveOn("headcountChart")) <= 1
    /\ Cardinality(LiveOn("turnoverChart")) <= 1
    /\ \A c \in LiveOn("headcountChart") : c[2] = charts.headcountChartInstance
    /\ \A c \in LiveOn("turnoverChart") : c[2] = charts.turnoverChartInstance

\* C21: after any sequence of loadDashboardData and refreshDashboard calls,
\* each of the two charts has at most one Chart instance created and not
\* destroyed: a new one is created only after the previous one was
\* destroyed, and refreshDashboard destroys both and clears the handles
\* before it reloads.
C21_OneChartInstance ==
    /\ []OneChartEach
    /\ [][RefreshDashboard =>
              /\ charts'.live = {}
              /\ charts'.headcountChartInstance = 0
              /\ charts'.turnoverChartInstance = 0
              /\ Len(loads') = Len(loads) + 1]_vars

\* both charts have been created a second time by a reload that did not go
\* through refreshDashboard
C21_Witness ==
    /\ charts.made = 4
    /\ Cardinality(charts.live) = 2
    /\ charts.headcountChartInstance = 3

\* the alerts the completed load j produced
AlertsOfLoad(j) ==
    criticalAlerts(ItemsOf(loads[j].got.employees), ItemsOf(loads[j].got.leaveData),
                   clock, tzOffset)

\* C28: loadDashboardData only ever un-hides the notification badge: it is
\* made visible when a load yields at least one alert and left as it is
\* when a load yields none, so the badge is visible if and only if some
\* load completed so far produced an alert, whether or not the current
\* snapshot has alerts.
C28_BadgeOnlyUnhides ==
    /\ [](~notificationBadge.hidden <=>
              \E j \in DOMAIN loads : loads[j].pc = "done" /\ AlertsOfLoad(j) # <<>>)
    /\ [][~notificationBadge.hidden => ~notificationBadge'.hidden]_vars

\* the badge is visible although the snapshot of the last load has no alert
C28_Witness ==
    /\ ~notificationBadge.hidden
    /\ dashboardData.alerts = <<>>
    /\ Ran # {} /\ loads[LastRan].pc = "done"

----------------------------------------------------------------------------
(* The alert action handler on any alerts array: window.handleAlertAction   *)
(* (line 1583) is global, so its type and index are whatever it is called   *)
(* with, and the alerts are whatever the last load left                     *)

MaxShown == 2

AlertTypes == {"contract", "birthday", "anniversary", "probation", "leave_pending"}

\* alert.employee and alert.leave: absent, null, a row without id, a row
\* whose id is the empty text, a row with an id
SubjectPool ==
    {Undefined, Null, Row([id |-> Undefined]), Row([id |-> Text("")]),
     Row([id |-> Text("e1")])}

AlertPool ==
    [type : AlertTypes \cup {"overtime"}, priority : {"high"}, n : {2},
     employee : SubjectPool, leave : {Undefined, Row([id |-> Text("l1")])}]

InitAction ==
    /\ clock = LoadClock
    /\ zone = "Asia/Jakarta"
    /\ employees = <<>>
    /\ leaveData = <<>>
    /\ pc = "idle"
    /\ today = DateObj(NaN)
    /\ alerts = <<>>
    /\ emitted = <<>>
    /\ cur = 0
    /\ tmp = NaN
    /\ reads = <<>>
    /\ ticks = 0
    /\ rawStatus = NoStatus
    /\ normalized = "none"
    /\ InitNoStats
    /\ \E as \in SeqsUpTo(AlertPool, MaxShown) :
           dashboardData = [InitialSnapshot EXCEPT !.alerts = as]
    /\ loads = <<>>
    /\ server = InitialServer
    /\ rendered = NothingRendered
    /\ location = Href("dashboard.html", <<>>)
    /\ charts = NoCharts
    /\ notificationBadge = BadgeHidden
    /\ InitOps

\* handleAlertAction(type, index) is called; index 0 and index MaxShown + 1
\* are positions before and after the array
CallHandleAlertAction(type, index) ==
    /\ OnPage
    /\ \E to \in {handleAlertAction(type, index, dashboardData)} :
           /\ location' = IF to = Undefined \/ IsThrown(to) THEN location ELSE to
           /\ pressed' = [type |-> type, index |-> index, to |-> to]
    /\ UNCHANGED <<runVars, statVars, dashboardData, loads, server, rendered,
                   charts, notificationBadge, taskCalls, tables, employeesPage>>

NextAction ==
    \E type \in AlertTypes \cup {"overtime"}, index \in 0..(MaxShown + 1) :
        CallHandleAlertAction(type, index)

SpecAction == InitAction /\ [][NextAction]_vars

\* the alert carries an employee row with an id, a leave row
HasEmployeeId(a) ==
    /\ a.employee[1] = "row"
    /\ a.employee[2].id \notin {Undefined, Null, Text("")}
HasLeave(a) == a.leave[1] = "row"

\* the alert carries the subject the type asks for
CarriesSubject(a, type) ==
    CASE type \in {"contract", "birthday", "anniversary", "probation"} -> HasEmployeeId(a)
      [] type = "leave_pending" -> HasLeave(a)
      [] OTHER -> FALSE

\* C22: handleAlertAction(type, index) leaves the dashboard only if
\* dashboardData.alerts[index] exists and carries the subject its type
\* requires; with no alert at the index, an unknown type or an alert lacking
\* the subject the page stays where it is.
C22_NavigatesOnlyWithSubject ==
    pressed # NothingPressed =>
        (~OnPage =>
            /\ pressed.index \in DOMAIN dashboardData.alerts
            /\ CarriesSubject(dashboardData.alerts[pressed.index], pressed.type))

\* the handler was called with the type contract on the second alert, which
\* is of another type, and the browser left for the employee page
C22_Witness ==
    /\ pressed.type = "contract"
    /\ pressed.index = 2
    /\ Len(dashboardData.alerts) = 2
    /\ dashboardData.alerts[2].type = "overtime"
    /\ location[1] = "employees.html"

----------------------------------------------------------------------------
(* The task handlers of the dashboard and the tasks table behind them.  A   *)
(* handler runs up to its call of loadDashboardData, which enters loads as  *)
(* every other load does; what a load does then is SpecLoad.                *)

MaxCalls == 3

\* what the title field holds when the form is submitted
TitleInputs == {<<>>, <<" ", " ">>, <<" ", "P", "a", "y", " ">>}

\* the status of the task shown when the page opens; the table keeps the
\* status of the task, the status it had at first, the number of tasks
\* created and the calls whose insert, update or delete it has applied
TaskStatuses == {"pending", "completed", "in_progress"}

\* line 2987
newStatus(status) == IF status = "completed" THEN "pending" ELSE "completed"

\* a handler that has just been called
NewCall(handler) ==
    [handler |-> handler, pc |-> "called", sent |-> FALSE, confirmed |-> FALSE,
     title |-> <<>>, read |-> "", write |-> "", answer |-> "none",
     toast |-> "", reload |-> 0]

\* lines 1237-1255, 1265-1278, 1300-1313: the end of a handler whose backend
\* function returned {data, error}; next is the number the load will have
finishHandler_alwaysReload(call, failed, done, failure, next) ==
    [call EXCEPT !.pc = "returned", !.answer = IF failed THEN "error" ELSE "ok",
                 !.toast = IF failed THEN failure ELSE done, !.reload = next]

finishHandler(call, failed, done, failure, next) ==
    IF failed
    THEN [call EXCEPT !.pc = "returned", !.answer = "error", !.toast = failure]
    ELSE [call EXCEPT !.pc = "returned", !.answer = "ok", !.toast = done,
                      !.reload = next]

InitTasks ==
    /\ clock = LoadClock
    /\ zone = "Asia/Jakarta"
    /\ employees = <<>>
    /\ leaveData = <<>>
    /\ pc = "idle"
    /\ today = DateObj(NaN)
    /\ alerts = <<>>
    /\ emitted = <<>>
    /\ cur = 0
    /\ tmp = NaN
    /\ reads = <<>>
    /\ ticks = 0
    /\ rawStatus = NoStatus
    /\ normalized = "none"
    /\ InitNoStats
    /\ dashboardData = InitialSnapshot
    /\ loads = <<>>
    /\ server = InitialServer
    /\ rendered = NothingRendered
    /\ location = Href("dashboard.html", <<>>)
    /\ charts = NoCharts
    /\ notificationBadge = BadgeHidden
    /\ pressed = NothingPressed
    /\ taskCalls = <<>>
    /\ \E status \in TaskStatuses :
           tables = [task |-> status, first |-> status, created |-> 0,
                     applied |-> {}]
    /\ employeesPage = <<>>

taskUnchanged ==
    UNCHANGED <<runVars, statVars, dashboardData, server, rendered, location,
                charts, notificationBadge, pressed, employeesPage>>

\* the handler call i ends as r says, starting a load when r.reload says so
endCall(i, r) ==
    /\ taskCalls' = [taskCalls EXCEPT ![i] = r]
    /\ loads' = IF r.reload > 0 THEN Append(loads, NewLoad) ELSE loads

\* lines 1205-1232: the form is submitted with the title given
CallHandleAddTask(title) ==
    /\ Len(taskCalls) < MaxCalls
    /\ taskCalls' = Append(taskCalls,
         IF trim(title) = <<>>
         THEN [NewCall("handleAddTask") EXCEPT
                  !.title = title, !.pc = "returned",
                  !.toast = "Task title is required"]
         ELSE [NewCall("handleAddTask") EXCEPT
                  !.title = title, !.pc = "createTask", !.sent = TRUE])
    /\ UNCHANGED <<loads, tables>>
    /\ taskUnchanged

\* lines 2881-2907 and 1232-1255: the insert is answered
CreateTaskSettles(i) ==
    /\ taskCalls[i].pc = "createTask"
    /\ \E failed \in BOOLEAN :
          /\ tables' = IF failed THEN tables
                       ELSE [tables EXCEPT !.created = @ + 1,
                                           !.applied = @ \cup {i}]
          /\ endCall(i, finishHandler(taskCalls[i], failed,
                                      "Task created successfully",
                                      "Failed to create task", Len(loads) + 1))
    /\ taskUnchanged

\* lines 1262-1263 and 2973-2982: the checkbox of the task changes, the
\* select of its status is sent
CallToggleTaskCompletion ==
    /\ Len(taskCalls) < MaxCalls
    /\ taskCalls' = Append(taskCalls,
         [NewCall("toggleTaskCompletion") EXCEPT !.pc = "select", !.sent = TRUE])
    /\ UNCHANGED <<loads, tables>>
    /\ taskUnchanged

\* lines 2979-2997: the select is answered (.single() answers an error when
\* the row is gone); on an error toggleTaskStatus returns it and the handler
\* ends, otherwise the update with the new status is sent
ToggleTaskStatusReads(i) ==
    /\ taskCalls[i].pc = "select"
    /\ \E failed \in BOOLEAN :
          IF failed \/ tables.task = "deleted"
          THEN endCall(i, finishHandler(taskCalls[i], TRUE, "Task updated",
                                        "Failed to update task", Len(loads) + 1))
          ELSE /\ taskCalls' = [taskCalls EXCEPT
                                   ![i].pc = "update",
                                   ![i].read = tables.task,
                                   ![i].write = newStatus(tables.task)]
               /\ loads' = loads
    /\ UNCHANGED tables
    /\ taskUnchanged

\* lines 2989-3004 and 1265-1278: the update is applied and answered
ToggleTaskStatusWrites(i) ==
    /\ taskCalls[i].pc = "update"
    /\ \E failed \in BOOLEAN :
          LET gone == failed \/ tables.task = "deleted"
          IN  /\ tables' = IF gone THEN tables
                           ELSE [tables EXCEPT !.task = taskCalls[i].write,
                                               !.applied = @ \cup {i}]
              /\ endCall(i, finishHandler(taskCalls[i], gone, "Task updated",
                                          "Failed to update task", Len(loads) + 1))
    /\ taskUnchanged

\* lines 1285-1294: the delete button is pressed and the confirm dialog is
\* answered
CallDeleteTaskConfirm(confirmed) ==
    /\ Len(taskCalls) < MaxCalls
    /\ taskCalls' = Append(taskCalls,
         IF ~confirmed
         THEN [NewCall("deleteTaskConfirm") EXCEPT !.pc = "returned"]
         ELSE [NewCall("deleteTaskConfirm") EXCEPT
                  !.pc = "deleteTask", !.sent = TRUE, !.confirmed = TRUE])
    /\ UNCHANGED <<loads, tables>>
    /\ taskUnchanged

\* lines 2945-2965 and 1294-1313: the delete is applied and answered
\* (.single() answers an error when no row was deleted)
DeleteTaskSettles(i) ==
    /\ taskCalls[i].pc = "deleteTask"
    /\ \E failed \in BOOLEAN :
          LET gone == failed \/ tables.task = "deleted"
          IN  /\ tables' = IF gone THEN tables
                           ELSE [tables EXCEPT !.task = "deleted",
                                               !.applied = @ \cup {i}]
              /\ endCall(i, finishHandler(taskCalls[i], gone, "Task deleted",
                                          "Failed to delete task", Len(loads) + 1))
    /\ taskUnchanged

NextTasks ==
    \/ \E title \in TitleInputs : CallHandleAddTask(title)
    \/ \E i \in DOMAIN taskCalls : CreateTaskSettles(i)
    \/ CallToggleTaskCompletion
    \/ \E i \in DOMAIN taskCalls : ToggleTaskStatusReads(i)
    \/ \E i \in DOMAIN taskCalls : ToggleTaskStatusWrites(i)
    \/ \E confirmed \in BOOLEAN : CallDeleteTaskConfirm(confirmed)
    \/ \E i \in DOMAIN taskCalls : DeleteTaskSettles(i)

SpecTasks == InitTasks /\ [][NextTasks]_vars

----------------------------------------------------------------------------
(* Properties of the task handlers                                          *)

FailureToasts ==
    {"Failed to create task", "Failed to update task", "Failed to delete task"}

\* the calls that have called loadDashboardData
Reloading == {i \in DOMAIN taskCalls : taskCalls[i].reload > 0}

\* C23: a task handler calls loadDashboardData only after the table has
\* applied its insert, update or delete, and nothing else starts a load;
\* handleAddTask with a title that is empty once trimmed calls neither
\* createTask nor the reload; a handler whose backend call came back with an
\* error shows its failure toast and does not reload; deleteTaskConfirm
\* calls deleteTask only when the user confirmed.
C23_ReloadOnlyAfterSuccess ==
    /\ Len(loads) = Cardinality(Reloading)
    /\ \A i \in DOMAIN taskCalls :
         LET c == taskCalls[i]
         IN  /\ c.reload > 0 => i \in tables.applied /\ c.reload \in DOMAIN loads
             /\ (c.handler = "handleAddTask" /\ trim(c.title) = <<>>) =>
                    ~c.sent /\ c.reload = 0 /\ c.pc = "returned"
             /\ (c.pc = "returned" /\ c.sent /\ i \notin tables.applied) =>
                    c.toast \in FailureToasts /\ c.reload = 0
             /\ (c.handler = "deleteTaskConfirm" /\ c.sent) => c.confirmed

\* a blank title was refused, a toggle failed with its toast, and a
\* confirmed delete went through and started the only load
C23_Witness ==
    /\ Len(taskCalls) = 3
    /\ taskCalls[1].title = <<" ", " ">> /\ taskCalls[1].pc = "returned"
    /\ taskCalls[2].toast = "Failed to update task"
    /\ taskCalls[3].handler = "deleteTaskConfirm" /\ taskCalls[3].reload = 1
    /\ Len(loads) = 1

\* every call so far is a toggle of the task that went through
OnlyToggles ==
    /\ taskCalls # <<>>
    /\ \A i \in DOMAIN taskCalls :
          /\ taskCalls[i].handler = "toggleTaskCompletion"
          /\ taskCalls[i].pc = "returned"
          /\ i \in tables.applied

\* C24: n toggles of a task that is pending or completed leave its status
\* changed exactly when n is odd, in every interleaving of the toggles.
C24_ToggleParity ==
    (OnlyToggles /\ tables.first \in {"pending", "completed"}) =>
        (tables.task # tables.first <=> Len(taskCalls) % 2 = 1)

----------------------------------------------------------------------------
(* clockIn and the attendance table: the rows of today, per employee, and   *)
(* the calls of clockIn that are running                                    *)

MaxClockIns == 3

Staff == {"e1", "e2"}

InitOthers ==
    /\ clock = LoadClock
    /\ zone = "Asia/Jakarta"
    /\ employees = <<>>
    /\ leaveData = <<>>
    /\ pc = "idle"
    /\ today = DateObj(NaN)
    /\ alerts = <<>>
    /\ emitted = <<>>
    /\ cur = 0
    /\ tmp = NaN
    /\ reads = <<>>
    /\ ticks = 0
    /\ rawStatus = NoStatus
    /\ normalized = "none"
    /\ InitNoStats
    /\ dashboardData = InitialSnapshot
    /\ loads = <<>>
    /\ server = InitialServer
    /\ rendered = NothingRendered
    /\ location = Href("dashboard.html", <<>>)
    /\ charts = NoCharts
    /\ notificationBadge = BadgeHidden
    /\ pressed = NothingPressed
    /\ taskCalls = <<>>
    /\ employeesPage = <<>>

\* an employee has clocked in today or has not
InitClock ==
    /\ InitOthers
    /\ \E rows \in [Staff -> 0..1] :
           tables = [attendance |-> rows, calls |-> <<>>]

tableUnchanged ==
    UNCHANGED <<runVars, statVars, dashboardData, loads, server, rendered,
                location, charts, notificationBadge, pressed, taskCalls,
                employeesPage>>

\* .single(): the row when the request went through and exactly one row
\* matches, null otherwise
single(failed, rows) == IF ~failed /\ rows = 1 THEN Row([n |-> rows]) ELSE Null

\* lines 2420-2430: clockIn(employeeId) sends its select
CallClockIn(e) ==
    /\ Len(tables.calls) < MaxClockIns
    /\ tables' = [tables EXCEPT !.calls = Append(@,
                     [employee |-> e, pc |-> "select", failed |-> FALSE,
                      error |-> Null])]
    /\ tableUnchanged

\* lines 2425-2443: the select is answered; only its data is looked at
ClockInSelects(i) ==
    /\ tables.calls[i].pc = "select"
    /\ \E failed \in BOOLEAN :
         LET existing == single(failed, tables.attendance[tables.calls[i].employee])
         IN  tables' = [tables EXCEPT
                 !.calls[i].failed = failed,
                 !.calls[i].pc = IF ToBoolean(existing) THEN "returned" ELSE "insert",
                 !.calls[i].error = IF ToBoolean(existing)
                                    THEN Text("Already clocked in today") ELSE Null]
    /\ tableUnchanged

\* lines 2436-2452: the insert is applied and answered
ClockInInserts(i) ==
    /\ tables.calls[i].pc = "insert"
    /\ \E failed \in BOOLEAN :
         tables' = [tables EXCEPT
             !.attendance[tables.calls[i].employee] = IF failed THEN @ ELSE @ + 1,
             !.calls[i].failed = @ \/ failed,
             !.calls[i].pc = "returned",
             !.calls[i].error = IF failed THEN Text("error.message") ELSE Null]
    /\ tableUnchanged

NextClock ==
    \/ \E e \in Staff : CallClockIn(e)
    \/ \E i \in DOMAIN tables.calls : ClockInSelects(i)
    \/ \E i \in DOMAIN tables.calls : ClockInInserts(i)

SpecClock == InitClock /\ [][NextClock]_vars

\* no request of any call has failed
NoRequestFailed == \A i \in DOMAIN tables.calls : ~tables.calls[i].failed

\* C25: in every interleaving of clockIn calls the table holds at most one
\* record of an employee for the day (here: when every request is answered).
C25_OneRecordPerDay ==
    NoRequestFailed => \A e \in Staff : tables.attendance[e] <= 1

----------------------------------------------------------------------------
(* upsertWorkScheduleShifts and the work_schedule_shifts table              *)

MaxUpserts == 2

Templates == {"t1", "t2"}
Days == {"Mon", "Tue"}

ShiftRow(t, day) == [template_id |-> t, day |-> day]

\* the shifts passed: none, one, two; a shift may carry a template_id of
\* its own, which line 3450 overwrites
ShiftInputs ==
    SeqsUpTo({[day |-> d] : d \in Days} \cup {ShiftRow("t2", "Mon")}, 2)

\* lines 3447-3450
shiftsWithTemplate(shifts, templateId) ==
    [k \in DOMAIN shifts |-> ShiftRow(templateId, shifts[k].day)]

\* .delete().eq('template_id', templateId)
deleteShifts(rows, templateId) ==
    SelectSeq(rows, LAMBDA r : r.template_id # templateId)

\* the rows of a template
ShiftsOf(rows, templateId) ==
    SelectSeq(rows, LAMBDA r : r.template_id = templateId)

\* lines 3441-3445: the answer of the delete is not looked at
afterDelete_checked(call, failed) ==
    IF failed
    THEN [call EXCEPT !.pc = "returned", !.deleteFailed = TRUE,
                      !.result = [data |-> Null, error |-> Text("error.message")]]
    ELSE [call EXCEPT !.pc = "insert"]

afterDelete(call, failed) ==
    [call EXCEPT !.pc = "insert", !.deleteFailed = failed]

\* lines 3452-3464
afterInsert(call, failed, inserted) ==
    IF failed
    THEN [call EXCEPT !.pc = "returned", !.insertFailed = TRUE,
                      !.result = [data |-> Null, error |-> Text("error.message")]]
    ELSE [call EXCEPT !.pc = "returned",
                      !.result = [data |-> List(inserted), error |-> Null]]

\* template t1 has none, one or two shifts, template t2 has one
InitShifts ==
    /\ InitOthers
    /\ \E old \in SeqsUpTo({ShiftRow("t1", d) : d \in Days}, 2) :
           tables = [shifts |-> old \o <<ShiftRow("t2", "Tue")>>, calls |-> <<>>]

\* lines 3439-3445: upsertWorkScheduleShifts(templateId, shifts) sends its
\* delete
CallUpsertWorkScheduleShifts(templateId, shifts) ==
    /\ Len(tables.calls) < MaxUpserts
    /\ tables' = [tables EXCEPT !.calls = Append(@,
                     [templateId |-> templateId, shifts |-> shifts,
                      had |-> ShiftsOf(tables.shifts, templateId),
                      pc |-> "delete", deleteFailed |-> FALSE,
                      insertFailed |-> FALSE,
                      result |-> [data |-> Undefined, error |-> Undefined]])]
    /\ tableUnchanged

\* the delete is applied or fails, and is answered; the insert is sent
UpsertDeletes(i) ==
    /\ tables.calls[i].pc = "delete"
    /\ \E failed \in BOOLEAN :
         tables' = [tables EXCEPT
             !.shifts = IF failed THEN @
                        ELSE deleteShifts(@, tables.calls[i].templateId),
             !.calls[i] = afterDelete(@, failed)]
    /\ tableUnchanged

\* the insert is applied or fails, and is answered; the function returns
UpsertInserts(i) ==
    /\ tables.calls[i].pc = "insert"
    /\ \E failed \in BOOLEAN :
         \E inserted \in {shiftsWithTemplate(tables.calls[i].shifts,
                                             tables.calls[i].templateId)} :
             tables' = [tables EXCEPT
                 !.shifts = IF failed THEN @ ELSE @ \o inserted,
                 !.calls[i] = afterInsert(@, failed, inserted)]
    /\ tableUnchanged

NextShifts ==
    \/ \E t \in Templates, shifts \in ShiftInputs :
          CallUpsertWorkScheduleShifts(t, shifts)
    \/ \E i \in DOMAIN tables.calls : UpsertDeletes(i)
    \/ \E i \in DOMAIN tables.calls : UpsertInserts(i)

SpecShifts == InitShifts /\ [][NextShifts]_vars

\* call i goes from pc a to pc b in this step
Moves(i, a, b) == tables.calls[i].pc = a /\ tables'.calls[i].pc = b

\* C26: the replacement is a delete followed by an insert, not one step:
\* after the delete step, failed or not, the insert is what comes next, and
\* a delete that went through has removed the template's shifts while the
\* call is still running; when the insert step fails the call returns
\* {data: null, error} and the table is left as the delete left it.
C26_DeleteThenInsert ==
    [][\A i \in DOMAIN tables.calls :
          /\ tables.calls[i].pc = "delete" =>
                /\ tables'.calls[i].pc \in {"delete", "insert"}
                /\ Moves(i, "delete", "insert") /\ ~tables'.calls[i].deleteFailed
                      => ShiftsOf(tables'.shifts, tables.calls[i].templateId) = <<>>
                /\ Moves(i, "delete", "insert") /\ tables'.calls[i].deleteFailed
                      => tables'.shifts = tables.shifts
          /\ (Moves(i, "insert", "returned") /\ tables'.calls[i].insertFailed) =>
                /\ tables'.calls[i].result.data = Null
                /\ ToBoolean(tables'.calls[i].result.error)
                /\ tables'.shifts = tables.shifts]_vars

\* a call whose delete went through and whose insert failed has returned
\* its error: the shifts the template had are gone and nothing replaced them
C26_Witness ==
    /\ Len(tables.calls) = 1
    /\ tables.calls[1].pc = "returned"
    /\ tables.calls[1].insertFailed /\ ~tables.calls[1].deleteFailed
    /\ Len(tables.calls[1].had) = 2
    /\ tables.calls[1].shifts # <<>>
    /\ ShiftsOf(tables.shifts, tables.calls[1].templateId) = <<>>

----------------------------------------------------------------------------
(* The employees page: employeesData and the operations on it               *)

MaxGoTo == 5

\* texts of the page, as their characters
n_Ani == <<"A", "n", "i">>
n_Budi == <<"B", "u", "d", "i">>
n_Cici == <<"C", "i", "c", "i">>
n_Permanent == <<"P", "e", "r", "m", "a", "n", "e", "n", "t">>
n_FixedTerm == <<"F", "i", "x", "e", "d", " ", "T", "e", "r", "m">>
n_fixed_term == <<"f", "i", "x", "e", "d", "_", "t", "e", "r", "m">>

StaffCard(name, active, status, dept) ==
    [full_name |-> name, is_active |-> active, employment_status |-> status,
     department_id |-> dept]

\* what getAllEmployees can answer with
Datasets ==
    {<<>>,
     <<StaffCard(n_Budi, TRUE, n_Permanent, "d1")>>,
     <<StaffCard(n_Cici, FALSE, n_Permanent, "d1"),
       StaffCard(n_Ani, TRUE, n_FixedTerm, "d2"),
       StaffCard(n_Budi, TRUE, n_Permanent, "d1")>>}

\* what the inputs of the page can hold
SearchInputs == {<<>>, <<"I">>, <<"z">>}
StatusOptions == {<<>>, toLowerCase(n_Permanent), n_fixed_term}
DepartmentOptions == {"", "d1"}
Tabs == {"all", "active", "inactive"}
SortColumns == {"full_name", "employment_status"}
PageSizeOptions == {<<"1">>, <<"2">>, <<"1", "0">>}

\* parseInt of a text: the number its leading digits spell, NaN without one
RECURSIVE leadingDigits(_, _)
leadingDigits(s, n) ==
    IF s # <<>> /\ \E d \in 1..10 : DigitChars[d] = Head(s)
    THEN leadingDigits(Tail(s), 10 * n + (CHOOSE d \in 1..10 : DigitChars[d] = Head(s)) - 1)
    ELSE n
parseInt(s) ==
    IF s # <<>> /\ \E d \in 1..10 : DigitChars[d] = Head(s)
    THEN Num(leadingDigits(s, 0)) ELSE NaN

\* s.replace(from, to) for one character: the first occurrence only
RECURSIVE replaceFirst(_, _, _)
replaceFirst(s, from, to) ==
    IF s = <<>> THEN s
    ELSE IF Head(s) = from THEN <<to>> \o Tail(s)
    ELSE <<Head(s)>> \o replaceFirst(Tail(s), from, to)

\* the characters used, by code unit
CodeOrder == <<" ", "A", "B", "C", "F", "I", "P", "T", "_", "a", "c", "d", "e",
               "i", "m", "n", "r", "t", "u", "x", "z">>
charCode(ch) == CHOOSE k \in DOMAIN CodeOrder : CodeOrder[k] = ch

\* a > b of two texts
RECURSIVE greater(_, _)
greater(a, b) ==
    IF a = <<>> THEN FALSE
    ELSE IF b = <<>> THEN TRUE
    ELSE IF Head(a) = Head(b) THEN greater(Tail(a), Tail(b))
    ELSE charCode(Head(a)) > charCode(Head(b))

\* lines 534-539: the comparator of the sort
compareBy(a, b, column, direction) ==
    LET comparison == IF greater(a[column], b[column]) THEN 1
                      ELSE IF greater(b[column], a[column]) THEN -1 ELSE 0
    IN  IF direction = "asc" THEN comparison ELSE -comparison

RECURSIVE insertSorted(_, _, _, _)
insertSorted(sorted, x, column, direction) ==
    IF sorted = <<>> THEN <<x>>
    ELSE IF compareBy(Head(sorted), x, column, direction) <= 0
         THEN <<Head(sorted)>> \o insertSorted(Tail(sorted), x, column, direction)
         ELSE <<x>> \o sorted

RECURSIVE sortRows(_, _, _)
sortRows(rows, column, direction) ==
    IF rows = <<>> THEN <<>>
    ELSE insertSorted(sortRows(SubSeq(rows, 1, Len(rows) - 1), column, direction),
                      rows[Len(rows)], column, direction)

\* the filters of lines 497-530
onTab(emp, tab) ==
    CASE tab = "active" -> emp.is_active
      [] tab = "inactive" -> ~emp.is_active
      [] OTHER -> TRUE
matchesSearch(emp, searchQuery) ==
    searchQuery # <<>> =>
        (emp.full_name # <<>>
            /\ includes(toLowerCase(emp.full_name), toLowerCase(searchQuery)))
matchesStatus(emp, filterStatus) ==
    filterStatus # <<>> =>
        (emp.employment_status # <<>>
            /\ toLowerCase(emp.employment_status)
                 = toLowerCase(replaceFirst(filterStatus, "_", " ")))
inDepartment(emp, filterDepartment) ==
    filterDepartment # "" => emp.department_id = filterDepartment

\* lines 494-548
applyFilters_keepPage(ed) ==
    [ed EXCEPT !.filtered =
        sortRows(SelectSeq(ed.all, LAMBDA emp :
                     /\ onTab(emp, ed.currentTab)
                     /\ matchesSearch(emp, ed.searchQuery)
                     /\ matchesStatus(emp, ed.filterStatus)
                     /\ inDepartment(emp, ed.filterDepartment)),
                 ed.sortColumn, ed.sortDirection)]

applyFilters(ed) ==
    [ed EXCEPT !.filtered =
        sortRows(SelectSeq(ed.all, LAMBDA emp :
                     /\ onTab(emp, ed.currentTab)
                     /\ matchesSearch(emp, ed.searchQuery)
                     /\ matchesStatus(emp, ed.filterStatus)
                     /\ inDepartment(emp, ed.filterDepartment)),
                 ed.sortColumn, ed.sortDirection),
               !.currentPage = 1]

\* lines 1061-1068
goToPage(ed, page) ==
    LET totalPages == CeilDiv(Len(ed.filtered), ed.itemsPerPage)
    IN  IF page < 1 \/ page > totalPages THEN ed
        ELSE [ed EXCEPT !.currentPage = page]

\* lines 16-29; op and arg are the last operation and its argument, loading
\* tells whether a loadEmployees is waiting for its answer
InitialEmployeesData ==
    [all |-> <<>>, filtered |-> <<>>, currentPage |-> 1, itemsPerPage |-> 10,
     sortColumn |-> "full_name", sortDirection |-> "asc", searchQuery |-> <<>>,
     filterStatus |-> <<>>, filterDepartment |-> "", currentTab |-> "all",
     loading |-> FALSE, op |-> "", arg |-> 0]

InitEmployees ==
    /\ clock = LoadClock
    /\ zone = "Asia/Jakarta"
    /\ employees = <<>>
    /\ leaveData = <<>>
    /\ pc = "idle"
    /\ today = DateObj(NaN)
    /\ alerts = <<>>
    /\ emitted = <<>>
    /\ cur = 0
    /\ tmp = NaN
    /\ reads = <<>>
    /\ ticks = 0
    /\ rawStatus = NoStatus
    /\ normalized = "none"
    /\ InitNoStats
    /\ dashboardData = InitialSnapshot
    /\ loads = <<>>
    /\ server = InitialServer
    /\ rendered = NothingRendered
    /\ location = Href("dashboard.html", <<>>)
    /\ charts = NoCharts
    /\ notificationBadge = BadgeHidden
    /\ pressed = NothingPressed
    /\ taskCalls = <<>>
    /\ tables = <<>>
    /\ employeesPage = InitialEmployeesData

Did(ed, op, arg) == [ed EXCEPT !.op = op, !.arg = arg]

employeesUnchanged ==
    UNCHANGED <<runVars, statVars, dashboardData, loads, server, rendered,
                location, charts, notificationBadge, pressed, taskCalls, tables>>

\* lines 277-281: loadEmployees asks for the employees
LoadEmployees ==
    /\ ~employeesPage.loading
    /\ employeesPage' = [Did(employeesPage, "loadEmployees", 0) EXCEPT
                            !.loading = TRUE]
    /\ employeesUnchanged

\* lines 281-305: the answer arrives, an error or the rows
EmployeesLoaded ==
    /\ employeesPage.loading
    /\ \/ employeesPage' = [Did(employeesPage, "loadFailed", 0) EXCEPT
                               !.loading = FALSE]
       \/ \E data \in Datasets :
             employeesPage' =
                 [Did(applyFilters([employeesPage EXCEPT !.all = data]),
                      "loaded", 0) EXCEPT !.loading = FALSE]
    /\ employeesUnchanged

\* lines 554-558
HandleSearch(query) ==
    /\ employeesPage' =
           Did(applyFilters([employeesPage EXCEPT !.searchQuery = query]),
               "handleSearch", 0)
    /\ employeesUnchanged

\* lines 564-568
HandleStatusFilter(status) ==
    /\ employeesPage' =
           Did(applyFilters([employeesPage EXCEPT !.filterStatus = status]),
               "handleStatusFilter", 0)
    /\ employeesUnchanged

\* lines 574-578
HandleDepartmentFilter(departmentId) ==
    /\ employeesPage' =
           Did(applyFilters([employeesPage EXCEPT !.filterDepartment = departmentId]),
               "handleDepartmentFilter", 0)
    /\ employeesUnchanged

\* lines 635-650
HandleTabChange(tab) ==
    /\ employeesPage' =
           Did(applyFilters([employeesPage EXCEPT !.currentTab = tab,
                                                  !.filterStatus = <<>>]),
               "handleTabChange", 0)
    /\ employeesUnchanged

\* lines 584-590
HandleItemsPerPageChange(value) ==
    /\ employeesPage' =
           Did([employeesPage EXCEPT !.itemsPerPage = Val(parseInt(value)),
                                     !.currentPage = 1],
               "handleItemsPerPageChange", 0)
    /\ employeesUnchanged

\* lines 596-607
SortTable(column) ==
    /\ employeesPage' =
           Did(applyFilters(
                   IF employeesPage.sortColumn = column
                   THEN [employeesPage EXCEPT !.sortDirection =
                            IF @ = "asc" THEN "desc" ELSE "asc"]
                   ELSE [employeesPage EXCEPT !.sortColumn = column,
                                              !.sortDirection = "asc"]),
               "sortTable", 0)
    /\ employeesUnchanged

\* window.goToPage (line 2751) with any page number
GoToPage(page) ==
    /\ employeesPage' = Did(goToPage(employeesPage, page), "goToPage", page)
    /\ employeesUnchanged

NextEmployees ==
    \/ LoadEmployees
    \/ EmployeesLoaded
    \/ \E query \in SearchInputs : HandleSearch(query)
    \/ \E status \in StatusOptions : HandleStatusFilter(status)
    \/ \E departmentId \in DepartmentOptions : HandleDepartmentFilter(departmentId)
    \/ \E tab \in Tabs : HandleTabChange(tab)
    \/ \E value \in PageSizeOptions : HandleItemsPerPageChange(value)
    \/ \E column \in SortColumns : SortTable(column)
    \/ \E page \in -1..MaxGoTo : GoToPage(page)

SpecEmployees == InitEmployees /\ [][NextEmployees]_vars

\* Math.ceil(filtered.length / itemsPerPage)
PageCount(ed) == CeilDiv(Len(ed.filtered), ed.itemsPerPage)

Recomputing ==
    {"loaded", "handleSearch", "handleStatusFilter", "handleDepartmentFilter",
     "handleTabChange", "handleItemsPerPageChange", "sortTable"}

\* C27: after any sequence of operations of the employees page
\* 1 <= currentPage <= max(1, ceil(filtered.length / itemsPerPage)); an
\* operation that recomputes the filtered list or changes the page size
\* leaves currentPage at 1; goToPage with a page below 1 or above the page
\* count changes nothing.
C27_PageInRange ==
    /\ [](/\ 1 <= employeesPage.currentPage
          /\ employeesPage.currentPage
                <= (IF PageCount(employeesPage) > 1 THEN PageCount(employeesPage)
                    ELSE 1)
          /\ employeesPage.op \in Recomputing => employeesPage.currentPage = 1)
    /\ [][(/\ employeesPage'.op = "goToPage"
           /\ \/ employeesPage'.arg < 1
              \/ employeesPage'.arg > PageCount(employeesPage))
          => /\ employeesPage'.filtered = employeesPage.filtered
             /\ employeesPage'.currentPage = employeesPage.currentPage
             /\ employeesPage'.itemsPerPage = employeesPage.itemsPerPage]_vars

\* three employees are listed two to a page and the second page is shown
C27_Witness ==
    /\ employeesPage.op = "goToPage"
    /\ employeesPage.currentPage = 2
    /\ employeesPage.itemsPerPage = 2
    /\ Len(employeesPage.filtered) = 3

====
